---- MODULE Spec2Model ----
(***************************************************************************)
(* FluxNews backend: the notification queue and dispatcher, the connection *)
(* registry and the rate limiter, as state machines.                       *)
(*                                                                         *)
(* In the notification queue time is kept relative to the current instant: *)
(* a stored timestamp t (retry_at, expires_at) is represented by           *)
(* t - utcnow(), and the passing of time (Tick) brings every stored        *)
(* timestamp nearer. The rate limiter keeps absolute times (rl_now).       *)
(***************************************************************************)
EXTENDS Integers, Sequences, FiniteSets, TLC

\* ------------------------------------------------------------------ bounds
\* Notifications the producers get accepted in one run.
MaxNotif == 2
\* The largest NotificationQueue.max_size (10000 by default in the source).
MaxSize == 2
\* Seconds from the construction of a notification to its expires_at.
ExpiryAfter == 10

\* ------------------------------------------------------- program constants
BaseDelayCritical == 5
BaseDelayOther == 30
MaxRetryDelay == 300
MaxRetriesCritical == 3
MaxRetriesOther == 2

\* NotificationPriority, in the order of the enum's definition
PriorityOrder == <<"critical", "high", "medium", "low">>
Priorities == {"critical", "high", "medium", "low"}
\* NotificationType (the two the dispatcher tells apart, plus none)
HIGH_IMPACT_NEWS == "high_impact_news"
SENTIMENT_ALERT == "sentiment_alert"
NotifTypes == {HIGH_IMPACT_NEWS, SENTIMENT_ALERT}
\* NotificationChannel
WEBSOCKET == "websocket"
IN_APP == "in_app"
NotifChannels == {WEBSOCKET, IN_APP}

\* Optional[int] None of quiet_hours_start / quiet_hours_end
NoHour == -1

\* The user of the notification service, and the live channels (WebSocket
\* objects) that connect for that user.
User == "u1"
Users == {"u1", "u2"}
NoChan == "none"
Chans == {"ws1", "ws2", "ws3"}
\* The tasks that call the rate limiter.
Callers == {"c1", "c2"}

\* ------------------------------------------------------------------ inputs
\* Notifications the producers construct. The default channel list is
\* [WEBSOCKET, IN_APP]; expires_at, when given, is ExpiryAfter seconds ahead.
DefaultChannels == {WEBSOCKET, IN_APP}
Kind(p, t, ch, e) == [priority |-> p, type |-> t, channels |-> ch, has_expiry |-> e]
\* The dispatcher's inputs: types, channel lists and expiry vary.
NotifKinds ==
  { Kind("critical", HIGH_IMPACT_NEWS, {WEBSOCKET}, FALSE),
    Kind("high", HIGH_IMPACT_NEWS, DefaultChannels, FALSE),
    Kind("medium", SENTIMENT_ALERT, DefaultChannels, FALSE),
    Kind("medium", SENTIMENT_ALERT, DefaultChannels, TRUE) }
\* The queue's inputs: every priority, delivered on the live channel alone.
QueueKinds == {Kind(p, SENTIMENT_ALERT, {WEBSOCKET}, FALSE) : p \in Priorities}
\* datetime.utcnow().hour at a dispatch
DispatchHours == {3, 23}

VARIABLES
  \* NotificationQueue
  max_size,      \* the capacity given to the constructor
  queues,        \* priority -> sequence of notification ids (deque per priority)
  processing,    \* set of notification ids
  retry_queue,   \* sequence of [notification, retry_in, retry_count]
  stats,         \* [enqueued, sent, failed, retried]
  \* Notification objects, by id (ids are given in creation order)
  notifs,        \* sequence of [priority, type, channels, has_expiry, expires_in,
                 \*              retry_count, sent_at]
  \* NotificationService
  running,       \* _running
  pc,            \* the worker task: "stopped" | "idle" | "ws_send"
  cur,           \* the notification the worker is sending (0: none)
  cur_settings,  \* the settings object _send_notification obtained for cur
  settings,      \* the user's row of user_notification_settings
  settings_cached, \* whether _settings_cache holds the user's settings
  db,            \* table notifications: [rows, sent] sets of ids
  \* ConnectionManager
  active_connections, \* user -> channel (NoChan: no entry)
  connection_info,    \* set of users with an entry
  \* observations
  hour,          \* datetime.utcnow().hour, the same over a run
  delivered,     \* id -> channel -> number of deliveries made so far
  failures,      \* id -> number of mark_failed calls
  dropped,       \* ids that mark_failed did not reschedule
  dequeued,      \* id -> number of times dequeue() returned it
  enqueue_result, \* what the last enqueue returned ("none" before the first)
  \* handle_websocket tasks, one per channel
  conn_pc,       \* channel -> where its handler task stands
  old_ws,        \* channel -> the old_ws its connect() read (NoChan: none)
  closed,        \* channels that were closed, by the server or by the client
  registered,    \* channels that were ever put in active_connections
  last_connected, \* the channel of the connect() that returned last
  \* RateLimiter, for one domain
  rl_now,          \* time.time(), in seconds
  request_history, \* request_history[domain]: sequence of timestamps
  rl_caller,       \* caller -> [state, wake]: in wait_if_needed's sleep, or not
  rl_returns,      \* the times at which calls of wait_if_needed returned
  \* NotificationSettings.should_send, called on its own
  ss_settings, ss_type, ss_hour, \* the arguments
  ss_result,                     \* "none" before the call, then "true" / "false"
  \* the producers' side of create_notification
  reported,      \* the last response of send_test_notification, with what
                 \* enqueue had returned to create_notification
  high_impact,   \* the call of create_high_impact_notification: its arguments,
                 \* the stored thresholds, and per user the notifications
                 \* it put in the queue
  \* RetryHandler, one call of execute_with_retry
  rh,            \* [state, max_retries, attempt, calls, sleeps, error,
                 \*  retry_stats]: calls are the outcomes of the invocations
                 \* of func, sleeps the wait times of the backoff sleeps
  \* ConnectionManager, one send_personal_message or broadcast at a time
  ws_op,         \* the call in progress or the last one: what it is, where
                 \* it stands, the user and channel of its write, what it
                 \* returned, and the bookkeeping of broadcast
  \* NewsDeduplicator
  dedup,         \* seen_urls, seen_titles, seen_hashes, and of the call of
                 \* filter_duplicates its argument, its result and the three
                 \* sets as they were before it
  \* the functions without state
  call           \* the last call of one of them: its name, its arguments
                 \* and what it returned

svcvars == <<max_size, queues, processing, retry_queue, stats, notifs, running, pc, cur,
             cur_settings, settings, settings_cached, db, delivered, failures,
             dropped, dequeued, hour, enqueue_result>>
cmvars == <<active_connections, connection_info>>
hsvars == <<conn_pc, old_ws, closed, registered, last_connected>>
rlvars == <<rl_now, request_history, rl_caller, rl_returns>>
ssvars == <<ss_settings, ss_type, ss_hour, ss_result>>
prodvars == <<reported, high_impact>>
complib == <<rh, ws_op, dedup, call>>
libvars == <<prodvars, complib>>
vars == <<svcvars, cmvars, hsvars, rlvars, ssvars, libvars>>

\* ----------------------------------------------------------------- helpers
RECURSIVE SumLen(_, _)
SumLen(q, i) == IF i = 0 THEN 0 ELSE Len(q[PriorityOrder[i]]) + SumLen(q, i - 1)

\* RetryHandler(max_retries=3, backoff_factor=2.0)
DefaultMaxRetries == 3
MaxRetryBudget == 4
RetryBudgets == 0..MaxRetryBudget

\* What one invocation of func ends with: its result, asyncio.TimeoutError,
\* an exception of a class of an aiohttp module, any other exception.
FnOutcomes == {"ok", "timeout", "aiohttp", "other"}

\* NotificationSettings.impact_threshold = 0.7, in tenths
DefaultImpactThreshold == 7

Pow2(k) == IF k = 0 THEN 1 ELSE IF k = 1 THEN 2 ELSE IF k = 2 THEN 4 ELSE 8

MinOf(S) == CHOOSE x \in S : \A y \in S : x <= y

SeqToSet(s) == {s[i] : i \in 1..Len(s)}

\* ------------------------------------------------------ NotificationSettings
\* NotificationSettings(user_id): every type on, websocket and in_app on.
DefaultSettings ==
  [enabled |-> TRUE,
   type_settings |-> [t \in NotifTypes |-> TRUE],
   channel_settings |-> [c \in NotifChannels |-> TRUE],
   quiet_hours_start |-> NoHour,
   quiet_hours_end |-> NoHour]

should_send(s, notification_type, current_hour) ==
  IF ~s.enabled THEN FALSE
  ELSE IF ~s.type_settings[notification_type] THEN FALSE
  ELSE IF /\ s.quiet_hours_start # NoHour /\ s.quiet_hours_end # NoHour
          /\ s.quiet_hours_start <= current_hour
          /\ current_hour < s.quiet_hours_end
       THEN notification_type = HIGH_IMPACT_NEWS
       ELSE TRUE

\* ---------------------------------------------------------- NotificationQueue
total_size(q) == SumLen(q, 4)

\* enqueue's capacity test, off by one
queue_full_off_by_one(q, cap) == total_size(q) > cap

\* enqueue's capacity test: total_size >= self.max_size
queue_full(q, cap) == total_size(q) >= cap

\* dequeue that scans the buckets from LOW to CRITICAL
dequeue_choice_reversed(q, rq) ==
  LET ne == {i \in 1..4 : q[PriorityOrder[i]] # <<>>} IN
  IF ne # {}
  THEN LET p == PriorityOrder[CHOOSE x \in ne : \A y \in ne : x >= y] IN
       [src |-> "bucket", priority |-> p, id |-> Head(q[p])]
  ELSE IF rq # <<>> /\ Head(rq).retry_in <= 0
       THEN [src |-> "retry", priority |-> "none", id |-> Head(rq).notification]
       ELSE [src |-> "none", priority |-> "none", id |-> 0]

\* What dequeue() takes: the head of the first non-empty bucket in enum order,
\* else the head of the retry queue if it is due, else nothing.
dequeue_choice(q, rq) ==
  LET ne == {i \in 1..4 : q[PriorityOrder[i]] # <<>>} IN
  IF ne # {}
  THEN LET p == PriorityOrder[MinOf(ne)] IN
       [src |-> "bucket", priority |-> p, id |-> Head(q[p])]
  ELSE IF rq # <<>> /\ Head(rq).retry_in <= 0
       THEN [src |-> "retry", priority |-> "none", id |-> Head(rq).notification]
       ELSE [src |-> "none", priority |-> "none", id |-> 0]

\* _should_retry with one retry more
should_retry_one_more(n) ==
  n.retry_count < (IF n.priority = "critical" THEN MaxRetriesCritical + 1
                   ELSE MaxRetriesOther + 1)

\* _should_retry with one retry too few for non-critical notifications
should_retry_one_less(n) ==
  n.retry_count < (IF n.priority = "critical" THEN MaxRetriesCritical
                   ELSE MaxRetriesOther - 1)

should_retry(n) ==
  n.retry_count < (IF n.priority = "critical" THEN MaxRetriesCritical
                   ELSE MaxRetriesOther)

\* _get_retry_delay without the exponential growth
get_retry_delay_flat(n) ==
  IF n.priority = "critical" THEN BaseDelayCritical ELSE BaseDelayOther

get_retry_delay(n) ==
  LET base_delay == IF n.priority = "critical" THEN BaseDelayCritical
                    ELSE BaseDelayOther
      delay_seconds == base_delay * Pow2(n.retry_count)
  IN IF delay_seconds < MaxRetryDelay THEN delay_seconds ELSE MaxRetryDelay

\* mark_sent that counts the notification and leaves it in processing
mark_sent_keeps(proc, st, id) ==
  IF id \in proc
  THEN [processing |-> proc, stats |-> [st EXCEPT !.sent = @ + 1]]
  ELSE [processing |-> proc, stats |-> st]

\* mark_sent(notification_id) on the queue state [processing, stats]
mark_sent(proc, st, id) ==
  IF id \in proc
  THEN [processing |-> proc \ {id}, stats |-> [st EXCEPT !.sent = @ + 1]]
  ELSE [processing |-> proc, stats |-> st]

\* load_pending_notifications(): the unsent rows in creation order. The
\* conversion of a row names NotificationType, which notification_queue.py
\* does not import: with any row the NameError is caught and [] returned.
load_pending_notifications(d) ==
  LET unsent == d.rows \ d.sent IN
  IF unsent = {} THEN <<>> ELSE <<>>

\* ---------------------------------------------------------------- settings
QuietSettings(start, end) ==
  [DefaultSettings EXCEPT !.quiet_hours_start = start, !.quiet_hours_end = end]

SettingsProfiles ==
  { DefaultSettings,
    [DefaultSettings EXCEPT !.enabled = FALSE],
    [DefaultSettings EXCEPT !.type_settings[SENTIMENT_ALERT] = FALSE],
    QuietSettings(1, 7),
    QuietSettings(22, 7) }

\* -------------------------------------------------------------------- Init
InitQueue ==
  /\ max_size \in {1, MaxSize}
  /\ queues = [p \in Priorities |-> <<>>]
  /\ processing = {}
  /\ retry_queue = <<>>
  /\ stats = [enqueued |-> 0, sent |-> 0, failed |-> 0, retried |-> 0]
  /\ notifs = <<>>

\* No producer has got a response yet.
InitProducers ==
  /\ reported = [message |-> "none", enqueue_result |-> "none"]
  /\ high_impact = [called |-> FALSE, lookup |-> "none", score |-> 0,
                    user_ids |-> <<>>,
                    stored |-> [u \in Users |-> DefaultImpactThreshold],
                    enqueued |-> [u \in Users |-> 0]]

\* NewsDeduplicator.__init__, filter_duplicates not called
NoSeen == [seen_urls |-> {}, seen_titles |-> {}, seen_hashes |-> {}]

InitDeduplicator ==
  dedup = [seen_urls |-> {}, seen_titles |-> {}, seen_hashes |-> {},
           called |-> FALSE, articles |-> <<>>, unique_articles |-> <<>>,
           before |-> NoSeen, refiltered |-> FALSE, again |-> <<>>]

\* No send_personal_message and no broadcast was called yet.
IdleOp ==
  [kind |-> "none", state |-> "idle", user |-> "none", chan |-> NoChan,
   result |-> "none", was_registered |-> FALSE, write_ok |-> "none",
   targets |-> <<>>, i |-> 0, disconnected_users |-> <<>>,
   attempted |-> {}, failed |-> {},
   snapshot |-> [u \in Users |-> NoChan]]

\* RetryHandler.__init__ with no call of execute_with_retry yet
InitRetryHandler ==
  rh = [state |-> "idle", max_retries |-> DefaultMaxRetries, attempt |-> 0,
        calls |-> <<>>, sleeps |-> <<>>, error |-> "none",
        retry_stats |-> [timeout |-> 0, client_error |-> 0, other_error |-> 0,
                         max_retries_exceeded |-> 0]]

\* The components beside the service, none of them in use.
\* No call of one of the pure functions.
NoCall == [fn |-> "none"]

InitComponents ==
  InitRetryHandler /\ ws_op = IdleOp /\ InitDeduplicator /\ call = NoCall

InitService ==
  /\ InitQueue
  /\ InitProducers
  /\ InitComponents
  /\ running = FALSE
  /\ pc = "stopped"
  /\ cur = 0
  /\ cur_settings = DefaultSettings
  /\ settings \in SettingsProfiles
  /\ settings_cached = FALSE
  /\ db = [rows |-> {}, sent |-> {}]
  /\ hour \in DispatchHours
  /\ delivered = <<>>
  /\ failures = <<>>
  /\ dropped = {}
  /\ dequeued = <<>>
  /\ enqueue_result = "none"

\* ConnectionManager.__init__, and no handler task yet
InitRegistry ==
  /\ active_connections = [u \in Users |-> NoChan]
  /\ connection_info = {}
  /\ conn_pc = [c \in Chans |-> "idle"]
  /\ old_ws = [c \in Chans |-> NoChan]
  /\ closed = {}
  /\ registered = {}
  /\ last_connected = NoChan

\* The service runs with the user connected on a live channel, or not.
InitRegistryOfService ==
  \/ InitRegistry
  \/ /\ active_connections = [u \in Users |-> IF u = User THEN "ws1" ELSE NoChan]
     /\ connection_info = {User}
     /\ conn_pc = [c \in Chans |-> IF c = "ws1" THEN "receiving" ELSE "idle"]
     /\ old_ws = [c \in Chans |-> NoChan]
     /\ closed = {}
     /\ registered = {"ws1"}
     /\ last_connected = "ws1"

\* RateLimiter.__init__, and no caller in wait_if_needed
InitRateLimiter ==
  /\ rl_now = 0
  /\ request_history = <<>>
  /\ rl_caller = [c \in Callers |-> [state |-> "out", wake |-> 0]]
  /\ rl_returns = <<>>

\* No call of should_send on its own.
InitNoShouldSend ==
  /\ ss_settings = DefaultSettings
  /\ ss_type = HIGH_IMPACT_NEWS
  /\ ss_hour = 0
  /\ ss_result = "none"

\* The service with a queue of the largest capacity.
Init ==
  /\ InitService /\ max_size = MaxSize
  /\ InitRegistryOfService /\ InitRateLimiter /\ InitNoShouldSend

\* ----------------------------------------------------------------- actions
\* NotificationQueue.enqueue(notification) with a freshly constructed
\* notification of one of the kinds.
enqueue(kinds) ==
  /\ UNCHANGED <<hsvars, rlvars, ssvars>>
  /\ \E k \in kinds :
       IF queue_full(queues, max_size)
       THEN /\ enqueue_result' = "false"
            /\ UNCHANGED <<max_size, queues, processing, retry_queue, stats, notifs, running,
                           pc, cur, cur_settings, settings, settings_cached, db,
                           hour, delivered, failures, dropped, dequeued,
                           cmvars>>
       ELSE /\ Len(notifs) < MaxNotif
            /\ LET id == Len(notifs) + 1 IN
               /\ notifs' = Append(notifs,
                    [priority |-> k.priority, type |-> k.type, channels |-> k.channels,
                     has_expiry |-> k.has_expiry,
                     expires_in |-> IF k.has_expiry THEN ExpiryAfter ELSE 0,
                     retry_count |-> 0, sent_at |-> FALSE])
               /\ queues' = [queues EXCEPT ![k.priority] = Append(@, id)]
               /\ stats' = [stats EXCEPT !.enqueued = @ + 1]
               /\ failures' = Append(failures, 0)
               /\ delivered' = Append(delivered, [c \in NotifChannels |-> 0])
               /\ dequeued' = Append(dequeued, 0)
               /\ enqueue_result' = "true"
            /\ UNCHANGED <<max_size, processing, retry_queue, running, pc, cur,
                           cur_settings, settings, settings_cached, db, hour,
                           dropped, cmvars>>

\* A producer calls enqueue (create_notification or any other caller) and no
\* response of the API is involved.
Enqueue(kinds) == enqueue(kinds) /\ UNCHANGED libvars

\* What create_notification is called with by the endpoints: the default
\* channel list and no expires_at.
CreateKinds == {k \in NotifKinds : k.channels = DefaultChannels /\ ~k.has_expiry}

\* send_test_notification: create_notification constructs the notification,
\* calls enqueue, drops what enqueue returned and returns the notification;
\* the endpoint answers success with "Test notification queued".
CreateNotification ==
  /\ enqueue(CreateKinds)
  /\ reported' = [message |-> "queued", enqueue_result |-> enqueue_result']
  /\ UNCHANGED <<high_impact, complib>>

\* enqueue(notification) on the queue state st, in a loop of one handler:
\* the notification is of kind k, cap is max_size.
enqueue_on(st, k, cap) ==
  IF queue_full(st.queues, cap)
  THEN [st EXCEPT !.enqueue_result = "false"]
  ELSE LET id == Len(st.notifs) + 1 IN
       [st EXCEPT
          !.notifs = Append(@,
             [priority |-> k.priority, type |-> k.type, channels |-> k.channels,
              has_expiry |-> k.has_expiry,
              expires_in |-> IF k.has_expiry THEN ExpiryAfter ELSE 0,
              retry_count |-> 0, sent_at |-> FALSE]),
          !.queues = [@ EXCEPT ![k.priority] = Append(@, id)],
          !.stats = [@ EXCEPT !.enqueued = @ + 1],
          !.failures = Append(@, 0),
          !.delivered = Append(@, [c \in NotifChannels |-> 0]),
          !.dequeued = Append(@, 0),
          !.enqueue_result = "true"]

\* What create_high_impact_notification passes to create_notification.
HighImpactKind == Kind("high", HIGH_IMPACT_NEWS, DefaultChannels, FALSE)

\* The loop of create_high_impact_notification from its i-th user on:
\* threshold_of[u] is the impact_threshold of what get_user_settings(u)
\* returns. st.enqueued counts, per user, the notifications put in the queue.
RECURSIVE high_impact_loop(_, _, _, _, _, _)
high_impact_loop(st, user_ids, i, impact_score, threshold_of, cap) ==
  IF i > Len(user_ids) THEN st
  ELSE LET user_id == user_ids[i]
           st1 == enqueue_on(st, HighImpactKind, cap)
           st2 == IF impact_score >= threshold_of[user_id]
                  THEN IF st1.enqueue_result = "true"
                       THEN [st1 EXCEPT !.enqueued[user_id] = @ + 1]
                       ELSE st1
                  ELSE st
       IN high_impact_loop(st2, user_ids, i + 1, impact_score, threshold_of, cap)

\* Impact scores and thresholds, in tenths.
ImpactScores == {6, 7, 8}
ImpactThresholds == {5, 7, 9}
WatcherLists == {<<>>, <<"u1">>, <<"u2">>, <<"u1", "u2">>, <<"u2", "u1">>}

\* create_high_impact_notification(article_id, company_id, impact_score,
\* user_ids), called once on a service whose settings cache is empty. The
\* article or the company may be missing; stored[u] is the impact_threshold
\* of the user's row, and where the row cannot be loaded get_user_settings
\* returns the default settings.
CreateHighImpactNotification ==
  /\ ~high_impact.called
  /\ \E lookup \in {"found", "missing"}, impact_score \in ImpactScores,
        user_ids \in WatcherLists, stored \in [Users -> ImpactThresholds],
        load_ok \in [Users -> BOOLEAN] :
       LET threshold_of == [u \in Users |-> IF load_ok[u] THEN stored[u]
                                                         ELSE DefaultImpactThreshold]
           st0 == [queues |-> queues, notifs |-> notifs, stats |-> stats,
                   failures |-> failures, delivered |-> delivered,
                   dequeued |-> dequeued, enqueue_result |-> enqueue_result,
                   enqueued |-> [u \in Users |-> 0]]
           st == IF lookup = "found"
                 THEN high_impact_loop(st0, user_ids, 1, impact_score,
                                       threshold_of, max_size)
                 ELSE st0
       IN /\ Len(notifs) + Len(user_ids) <= MaxNotif
          /\ queues' = st.queues
          /\ notifs' = st.notifs
          /\ stats' = st.stats
          /\ failures' = st.failures
          /\ delivered' = st.delivered
          /\ dequeued' = st.dequeued
          /\ enqueue_result' = st.enqueue_result
          /\ settings_cached' =
               (settings_cached
                \/ (lookup = "found" /\ User \in SeqToSet(user_ids) /\ load_ok[User]))
          /\ high_impact' = [called |-> TRUE, lookup |-> lookup,
                             score |-> impact_score, user_ids |-> user_ids,
                             stored |-> stored, enqueued |-> st.enqueued]
  /\ UNCHANGED <<max_size, processing, retry_queue, running, pc, cur, cur_settings,
                 settings, db, hour, dropped, reported, cmvars, hsvars, rlvars,
                 ssvars, complib>>

\* Notification.is_expired()
is_expired(n) == n.has_expiry /\ n.expires_in < 0

\* The time to the next instant at which a stored timestamp is passed.
Timers ==
  {retry_queue[i].retry_in : i \in 1..Len(retry_queue)}
  \cup {notifs[i].expires_in + 1 : i \in {j \in 1..Len(notifs) : notifs[j].has_expiry}}

\* Time passes, up to the next instant at which a retry is due or a
\* notification has expired: every stored timestamp comes that much nearer.
Tick ==
  /\ {t \in Timers : t > 0} # {}
  /\ LET d == MinOf({t \in Timers : t > 0}) IN
     /\ retry_queue' =
          [i \in 1..Len(retry_queue) |->
             [retry_queue[i] EXCEPT !.retry_in = IF @ > d THEN @ - d ELSE 0]]
     /\ notifs' =
          [i \in 1..Len(notifs) |->
             [notifs[i] EXCEPT !.expires_in =
                 IF notifs[i].has_expiry /\ @ >= 0 THEN @ - d ELSE @]]
  /\ UNCHANGED <<max_size, queues, processing, stats, running, pc, cur,
                 cur_settings, settings, settings_cached, db, hour, delivered,
                 failures, dropped, dequeued, enqueue_result, cmvars, hsvars,
                 rlvars, ssvars, libvars>>

\* mark_failed(notification, retry=True) on the queue state
mark_failed(rq, proc, st, n, id) ==
  LET again == should_retry(n) IN
  [processing |-> proc \ {id},
   stats |-> [st EXCEPT !.failed = @ + 1],
   rescheduled |-> again,
   retry_queue |->
     IF again
     THEN Append(rq, [notification |-> id, retry_in |-> get_retry_delay(n),
                      retry_count |-> n.retry_count + 1])
     ELSE rq,
   retry_count |-> IF again THEN n.retry_count + 1 ELSE n.retry_count]

\* The channels of sent_channels after the loop over notification.channels:
\* the websocket channel if its write succeeded, the in-app channel whenever
\* it is a target and enabled (save_to_database swallows its errors).
sent_channels(n, s, sent_ws) ==
  (IF sent_ws THEN {WEBSOCKET} ELSE {})
  \cup (IF IN_APP \in n.channels /\ s.channel_settings[IN_APP] THEN {IN_APP} ELSE {})

\* _send_notification without its except clause: the error of the update of
\* sent_at reaches the worker loop
send_result_uncaught(sc, upd_ok) ==
  IF sc = {} THEN "false" ELSE IF upd_ok THEN "true" ELSE "raise"

\* What _send_notification hands to the worker loop, given the channels
\* that delivered and whether the update of sent_at went through: an error
\* is caught by its except clause and False returned.
send_result(sc, upd_ok) ==
  IF sc # {} /\ upd_ok THEN "true" ELSE "false"

\* The rest of _send_notification after the websocket channel, and the
\* worker's mark_sent / mark_failed: q1, rq1, proc1, st1 are the queue after
\* the dequeue, s the settings obtained, sent_ws whether the live write took
\* place and succeeded.
FinishSend(id, s, q1, rq1, proc1, st1, sent_ws) ==
  \E upd_ok \in BOOLEAN :
    LET n == notifs[id]
        sc == sent_channels(n, s, sent_ws)
        in_app == IN_APP \in sc
        \* save_to_database: insert of the row (a second insert of the id
        \* is refused by the store, and the error swallowed)
        db1 == IF in_app /\ id \notin db.rows
               THEN [rows |-> db.rows \cup {id},
                     sent |-> IF n.sent_at THEN db.sent \cup {id} ELSE db.sent]
               ELSE db
        \* update of sent_at, which may raise
        result == send_result(sc, upd_ok)
        success == result = "true"
        db2 == IF success THEN [db1 EXCEPT !.sent = @ \cup ({id} \cap db1.rows)]
               ELSE db1
        n1 == IF sc # {} THEN [n EXCEPT !.sent_at = TRUE] ELSE n
        ms == mark_sent(proc1, st1, id)
        mf == mark_failed(rq1, proc1, st1, n1, id)
    IN
    /\ queues' = q1
    /\ db' = db2
    /\ delivered' = [delivered EXCEPT ![id] =
                        [c \in NotifChannels |-> IF c \in sc THEN @[c] + 1 ELSE @[c]]]
    /\ IF success
       THEN /\ processing' = ms.processing
            /\ stats' = ms.stats
            /\ retry_queue' = rq1
            /\ notifs' = [notifs EXCEPT ![id] = n1]
            /\ UNCHANGED <<failures, dropped>>
       ELSE IF result = "raise"
       THEN \* the worker loop's own except clause: logged, nothing marked
            /\ processing' = proc1
            /\ stats' = st1
            /\ retry_queue' = rq1
            /\ notifs' = [notifs EXCEPT ![id] = n1]
            /\ UNCHANGED <<failures, dropped>>
       ELSE /\ processing' = mf.processing
            /\ stats' = mf.stats
            /\ retry_queue' = mf.retry_queue
            /\ notifs' = [notifs EXCEPT ![id] = [n1 EXCEPT !.retry_count = mf.retry_count]]
            /\ failures' = [failures EXCEPT ![id] = @ + 1]
            /\ dropped' = IF mf.rescheduled THEN dropped ELSE dropped \cup {id}
    /\ pc' = "idle"
    /\ cur' = 0
    /\ cur_settings' = DefaultSettings

\* One turn of _process_notifications from its dequeue to the first point
\* where _send_notification waits (the write on the live channel), or to its
\* end when it does not wait.
Dispatch(load_outcomes) ==
  /\ running /\ pc = "idle"
  /\ LET d == dequeue_choice(queues, retry_queue) IN
     /\ d.src # "none"
     /\ \E load_ok \in load_outcomes :
        LET id == d.id
            q1 == IF d.src = "bucket"
                  THEN [queues EXCEPT ![d.priority] = Tail(@)] ELSE queues
            rq1 == IF d.src = "retry" THEN Tail(retry_queue) ELSE retry_queue
            proc1 == processing \cup {id}
            st1 == IF d.src = "retry" THEN [stats EXCEPT !.retried = @ + 1]
                   ELSE stats
            \* get_user_settings: the cache, else the store, else (the load
            \* raised) the default settings, which are not cached
            s == IF settings_cached \/ load_ok THEN settings ELSE DefaultSettings
            n == notifs[id]
        IN
        /\ settings_cached' = (settings_cached \/ load_ok)
        /\ dequeued' = [dequeued EXCEPT ![id] = @ + 1]
        /\ IF ~should_send(s, n.type, hour)
           THEN \* blocked by the settings: True is returned, mark_sent follows
                LET ms == mark_sent(proc1, st1, id) IN
                /\ queues' = q1
                /\ retry_queue' = rq1
                /\ processing' = ms.processing
                /\ stats' = ms.stats
                /\ UNCHANGED <<notifs, pc, cur, cur_settings, db, delivered,
                               failures, dropped, cmvars>>
           ELSE IF /\ WEBSOCKET \in n.channels
                   /\ s.channel_settings[WEBSOCKET]
                   /\ active_connections[User] # NoChan
                THEN /\ queues' = q1
                     /\ retry_queue' = rq1
                     /\ processing' = proc1
                     /\ stats' = st1
                     /\ pc' = "ws_send"
                     /\ cur' = id
                     /\ cur_settings' = s
                     /\ UNCHANGED <<notifs, db, delivered, failures, dropped,
                                    cmvars>>
                ELSE /\ FinishSend(id, s, q1, rq1, proc1, st1, FALSE)
                     /\ UNCHANGED cmvars
  /\ UNCHANGED <<max_size, running, settings, hour, enqueue_result, hsvars, rlvars,
                 ssvars, libvars>>

\* disconnect(user_id) that removes nothing
disconnect_nothing(ac, user_id) == ac

\* ConnectionManager.disconnect(user_id)
disconnect(ac, user_id) == [ac EXCEPT ![user_id] = NoChan]

\* The write on the live channel ends: it succeeded, or it raised and
\* send_personal_message disconnected the user; _send_notification goes on.
WsWriteDone ==
  /\ running /\ pc = "ws_send"
  /\ \E ok \in BOOLEAN :
       /\ active_connections' =
            IF ok THEN active_connections ELSE disconnect(active_connections, User)
       /\ connection_info' = IF ok THEN connection_info ELSE connection_info \ {User}
       /\ FinishSend(cur, cur_settings, queues, retry_queue, processing, stats,
                     ok)
  /\ UNCHANGED <<max_size, running, settings, settings_cached, hour, dequeued,
                 enqueue_result, hsvars, rlvars, ssvars, libvars>>

\* NotificationService.start(): the pending notifications of the store are
\* enqueued and the worker task is created.
Start ==
  /\ ~running /\ pc = "stopped"
  /\ running' = TRUE
  /\ pc' = "idle"
  /\ cur' = 0
  /\ load_pending_notifications(db) = <<>>
  /\ UNCHANGED <<max_size, queues, processing, retry_queue, stats, notifs,
                 cur_settings,
                 settings, settings_cached, db, hour, delivered, failures,
                 dropped, dequeued, enqueue_result, cmvars, hsvars, rlvars,
                 ssvars, libvars>>

\* NotificationService.stop(): _running is cleared and the worker task is
\* cancelled where it waits (asleep on an empty queue, or in the write on the
\* live channel: CancelledError is no Exception and leaves the loop).
Stop ==
  /\ running
  /\ running' = FALSE
  /\ pc' = "stopped"
  /\ cur' = 0
  /\ cur_settings' = DefaultSettings
  /\ UNCHANGED <<max_size, queues, processing, retry_queue, stats, notifs,
                 settings,
                 settings_cached, db, hour, delivered, failures, dropped,
                 dequeued, enqueue_result, cmvars, hsvars, rlvars, ssvars, libvars>>

Next ==
  \/ Enqueue(NotifKinds)
  \/ Dispatch(BOOLEAN)
  \/ WsWriteDone
  \/ Tick
  \/ Start
  \/ Stop

\* The notification service with its dispatcher's inputs.
SpecService == Init /\ [][Next]_vars

\* The queue, of the smallest or the largest capacity, under the worker: the
\* settings are the default ones and the store answers, the user is connected
\* at first, and the service is not stopped.
InitOfQueue ==
  /\ InitService /\ settings = DefaultSettings /\ hour = 3
  /\ InitRegistryOfService /\ active_connections[User] # NoChan
  /\ InitRateLimiter /\ InitNoShouldSend

NextOfQueue ==
  \/ Enqueue(QueueKinds)
  \/ Dispatch({TRUE})
  \/ WsWriteDone
  \/ Tick
  \/ Start

SpecQueue == InitOfQueue /\ [][NextOfQueue]_vars

\* The producers of the API in front of the queue and its worker.
NextCreate ==
  \/ CreateNotification
  \/ Dispatch({TRUE})
  \/ WsWriteDone
  \/ Tick
  \/ Start

SpecCreate == InitOfQueue /\ [][NextCreate]_vars

\* create_high_impact_notification in front of a queue of the smallest or the
\* largest capacity.
NextHighImpact == CreateHighImpactNotification

SpecHighImpact == InitOfQueue /\ [][NextHighImpact]_vars

\* The queue under a worker that keeps running while time advances: the
\* worker loop and its live write are not held up for ever, retries come due,
\* and the producers stop after MaxNotif notifications of two priorities.
LiveKinds ==
  {Kind(p, SENTIMENT_ALERT, {WEBSOCKET}, FALSE) : p \in {"critical", "medium"}}

NextOfQueueLive ==
  \/ Enqueue(LiveKinds)
  \/ Dispatch({TRUE})
  \/ WsWriteDone
  \/ Tick
  \/ Start

InitOfQueueLive == InitOfQueue /\ max_size = MaxSize

SpecQueueLive ==
  /\ InitOfQueueLive
  /\ [][NextOfQueueLive]_vars
  /\ WF_vars(Start)
  /\ WF_vars(Dispatch({TRUE}))
  /\ WF_vars(WsWriteDone)
  /\ WF_vars(Tick)

\* The service at rest, for the specifications of the other components.
InitServiceAtRest ==
  InitService /\ max_size = MaxSize /\ settings = DefaultSettings /\ hour = 3

\* ------------------------------------------------------------ RetryHandler
\* The exceptions the two except clauses keep for a retry.
is_retryable_any(o) == o # "ok"

is_retryable(o) == o \in {"timeout", "aiohttp"}

\* backoff_factor ** attempt with the default factor
backoff_wait(attempt) == Pow2(attempt)

\* execute_with_retry(func) is called on a handler of some max_retries: the
\* loop is entered, or with range(0) skipped and "raise last_exception"
\* raises the TypeError of raising None.
ExecuteWithRetry ==
  /\ rh.state = "idle"
  /\ \E m \in RetryBudgets :
       rh' = IF m = 0
             THEN [rh EXCEPT !.max_retries = m, !.state = "raised",
                             !.error = "type_error",
                             !.retry_stats.max_retries_exceeded = @ + 1]
             ELSE [rh EXCEPT !.max_retries = m, !.state = "calling"]
  /\ UNCHANGED <<svcvars, cmvars, hsvars, rlvars, ssvars, prodvars, call, ws_op, dedup>>

\* The awaited func(*args) of attempt rh.attempt ends with outcome o.
FnEnds(o) ==
  LET called == [rh EXCEPT !.calls = Append(@, o)]
      last == rh.attempt = rh.max_retries - 1
      tallied == [called EXCEPT
                    !.retry_stats.timeout = IF o = "timeout" THEN @ + 1 ELSE @,
                    !.retry_stats.client_error = IF o = "aiohttp" THEN @ + 1 ELSE @,
                    !.retry_stats.other_error =
                       IF o \notin {"ok", "timeout", "aiohttp"} THEN @ + 1 ELSE @]
  IN
  /\ rh.state = "calling"
  /\ rh' = IF o = "ok"
           THEN [called EXCEPT !.state = "returned"]
           ELSE IF is_retryable(o)
           THEN IF ~last
                THEN [tallied EXCEPT !.state = "sleeping",
                                     !.sleeps = Append(@, backoff_wait(rh.attempt))]
                ELSE [tallied EXCEPT !.state = "raised", !.error = o,
                                     !.attempt = @ + 1,
                                     !.retry_stats.max_retries_exceeded = @ + 1]
           ELSE [tallied EXCEPT !.state = "raised", !.error = o]
  /\ UNCHANGED <<svcvars, cmvars, hsvars, rlvars, ssvars, prodvars, call, ws_op, dedup>>

\* asyncio.sleep(wait_time) is over: the next attempt
BackoffOver ==
  /\ rh.state = "sleeping"
  /\ rh' = [rh EXCEPT !.state = "calling", !.attempt = @ + 1]
  /\ UNCHANGED <<svcvars, cmvars, hsvars, rlvars, ssvars, prodvars, call, ws_op, dedup>>

InitRetry ==
  InitServiceAtRest /\ InitRegistry /\ InitRateLimiter /\ InitNoShouldSend

NextRetry ==
  \/ ExecuteWithRetry
  \/ \E o \in FnOutcomes : FnEnds(o)
  \/ BackoffOver

SpecRetry == InitRetry /\ [][NextRetry]_vars

\* ------------------------------------------- NotificationSettings.should_send
\* The values of quiet_hours_start / quiet_hours_end and of current_hour the
\* function is applied to (the settings endpoint accepts any hours in 0..23,
\* start > end included).
QuietHourChoices == {NoHour, 0, 1, 7, 22, 23}
CurrentHourChoices == {0, 3, 7, 12, 22, 23}

ShouldSendSettings ==
  { [enabled |-> e, type_settings |-> ts,
     channel_settings |-> [c \in NotifChannels |-> TRUE],
     quiet_hours_start |-> a, quiet_hours_end |-> b] :
    e \in BOOLEAN, ts \in [NotifTypes -> BOOLEAN],
    a \in QuietHourChoices, b \in QuietHourChoices }

InitShouldSend ==
  /\ InitServiceAtRest /\ InitRegistry /\ InitRateLimiter
  /\ ss_settings \in ShouldSendSettings
  /\ ss_type \in NotifTypes
  /\ ss_hour \in CurrentHourChoices
  /\ ss_result = "none"

\* settings.should_send(notification_type, current_hour)
ShouldSendCall ==
  /\ ss_result = "none"
  /\ ss_result' = IF should_send(ss_settings, ss_type, ss_hour) THEN "true"
                  ELSE "false"
  /\ UNCHANGED <<ss_settings, ss_type, ss_hour, svcvars, cmvars, hsvars, rlvars,
                 libvars>>

NextShouldSend == ShouldSendCall

SpecShouldSend == InitShouldSend /\ [][NextShouldSend]_vars

\* ------------------------------------------------------------- RateLimiter
\* limits[...] of the one domain: 'requests' and 'window' (60 / 60 s for
\* 'default', 100 / 60 s for news.google.com, 30 / 60 s for feeds), scaled down.
RLQuota == 2
RLWindow == 3
\* The clock stops at RLMaxTime, and RLMaxCalls calls are made.
RLMaxTime == 5
RLMaxCalls == 4

limit_config == [requests |-> RLQuota, window |-> RLWindow]

\* recent_requests = [t for t in history if t > window_start]
recent_requests(history, window_start) ==
  SelectSeq(history, LAMBDA t : t > window_start)

CallsMade ==
  Len(rl_returns) + Cardinality({c \in Callers : rl_caller[c].state = "asleep"})

\* wait_if_needed(url) up to its return, or up to its sleep.
WaitIfNeeded(c) ==
  /\ rl_caller[c].state = "out"
  /\ CallsMade < RLMaxCalls
  /\ LET now == rl_now
         window_start == now - limit_config.window
         recent == recent_requests(request_history, window_start)
         wait_time == recent[1] + limit_config.window - now
     IN IF Len(recent) >= limit_config.requests /\ wait_time > 0
        THEN /\ rl_caller' = [rl_caller EXCEPT ![c] =
                                [state |-> "asleep", wake |-> now + wait_time]]
             /\ UNCHANGED <<request_history, rl_returns>>
        ELSE /\ request_history' = Append(request_history, now)
             /\ rl_returns' = Append(rl_returns, rl_now)
             /\ UNCHANGED rl_caller
  /\ UNCHANGED <<rl_now, svcvars, cmvars, hsvars, ssvars, libvars>>

\* asyncio.sleep(wait_time) is over: wait_if_needed returns wait_time.
WakeUp(c) ==
  /\ rl_caller[c].state = "asleep"
  /\ rl_caller[c].wake <= rl_now
  /\ rl_caller' = [rl_caller EXCEPT ![c] = [state |-> "out", wake |-> 0]]
  /\ rl_returns' = Append(rl_returns, rl_now)
  /\ UNCHANGED <<rl_now, request_history, svcvars, cmvars, hsvars, ssvars, libvars>>

\* A second passes.
RLTick ==
  /\ rl_now < RLMaxTime
  /\ rl_now' = rl_now + 1
  /\ UNCHANGED <<request_history, rl_caller, rl_returns, svcvars, cmvars,
                 hsvars, ssvars, libvars>>

InitRate ==
  InitServiceAtRest /\ InitRegistry /\ InitRateLimiter /\ InitNoShouldSend

NextRate ==
  \/ \E c \in Callers : WaitIfNeeded(c)
  \/ \E c \in Callers : WakeUp(c)
  \/ RLTick

SpecRate == InitRate /\ [][NextRate]_vars

\* ------------------------------------------ ConnectionManager, handle_websocket
\* handle_websocket(websocket, user_id) is called for channel c: connect()
\* begins and waits in websocket.accept().
HandleWebsocket(c) ==
  /\ conn_pc[c] = "idle"
  /\ conn_pc' = [conn_pc EXCEPT ![c] = "accept"]
  /\ UNCHANGED <<active_connections, connection_info, old_ws, closed,
                 registered, last_connected, svcvars, rlvars, ssvars, libvars>>

\* The entry of the user is set to c, and the greeting is sent on the channel
\* send_personal_message finds in the entry.
Register(c) ==
  /\ active_connections' = [active_connections EXCEPT ![User] = c]
  /\ connection_info' = connection_info \cup {User}
  /\ registered' = registered \cup {c}
  /\ conn_pc' = [conn_pc EXCEPT ![c] = "greeting"]

\* connect(): accept() is over. With an entry for the user its channel is
\* read and connect() waits in old_ws.close(); without, c is registered.
Accepted(c) ==
  /\ conn_pc[c] = "accept"
  /\ IF active_connections[User] # NoChan
     THEN /\ old_ws' = [old_ws EXCEPT ![c] = active_connections[User]]
          /\ conn_pc' = [conn_pc EXCEPT ![c] = "close_old"]
          /\ UNCHANGED <<active_connections, connection_info, registered>>
     ELSE /\ Register(c)
          /\ UNCHANGED old_ws
  /\ UNCHANGED <<closed, last_connected, svcvars, rlvars, ssvars, libvars>>

\* connect(): old_ws.close() is over (an error of it is swallowed), c is
\* registered.
OldClosed(c) ==
  /\ conn_pc[c] = "close_old"
  /\ closed' = closed \cup {old_ws[c]}
  /\ Register(c)
  /\ UNCHANGED <<old_ws, last_connected, svcvars, rlvars, ssvars, libvars>>

\* connect(): the write of the greeting is over and connect() returns; a
\* write that raised (always so on a closed channel, and on an open one when
\* the client is gone) made send_personal_message call disconnect(user_id).
\* The handler goes on to wait in receive_json().
Greeted(c) ==
  /\ conn_pc[c] = "greeting"
  /\ \E ok \in (IF c \in closed THEN {FALSE} ELSE BOOLEAN) :
       /\ active_connections' =
            IF ok THEN active_connections ELSE disconnect(active_connections, User)
       /\ connection_info' = IF ok THEN connection_info ELSE connection_info \ {User}
       /\ closed' = IF ok THEN closed ELSE closed \cup {c}
  /\ conn_pc' = [conn_pc EXCEPT ![c] = "receiving"]
  /\ last_connected' = c
  /\ UNCHANGED <<old_ws, registered, svcvars, rlvars, ssvars, libvars>>

\* handle_websocket: receive_json() raises, because the channel was closed
\* or because the client goes away now; disconnect(user_id) is called and
\* the handler ends.
ReceiveRaised(c) ==
  /\ conn_pc[c] = "receiving"
  /\ closed' = closed \cup {c}
  /\ active_connections' = disconnect(active_connections, User)
  /\ connection_info' = connection_info \ {User}
  /\ conn_pc' = [conn_pc EXCEPT ![c] = "ended"]
  /\ UNCHANGED <<old_ws, registered, last_connected, svcvars, rlvars, ssvars, libvars>>

InitConn ==
  InitServiceAtRest /\ InitRegistry /\ InitRateLimiter /\ InitNoShouldSend

NextConn ==
  \/ \E c \in Chans : HandleWebsocket(c)
  \/ \E c \in Chans : Accepted(c)
  \/ \E c \in Chans : OldClosed(c)
  \/ \E c \in Chans : Greeted(c)
  \/ \E c \in Chans : ReceiveRaised(c)

SpecConn == InitConn /\ [][NextConn]_vars

\* ------------------------- ConnectionManager, send_personal_message / broadcast
\* The channel each user connects on first.
FirstChan == [u \in Users |-> IF u = "u1" THEN "ws1" ELSE "ws2"]

\* The user_ids broadcast is called with; without user_ids it takes the
\* list of the connected users, which is one of these.
BroadcastTargets ==
  {<<>>, <<"u1">>, <<"u2">>, <<"u1", "u2">>, <<"u2", "u1">>, <<"u1", "u1">>}

\* connect(c, u) of a handler task reaches its registration: the channel
\* the user had is closed, c is the entry of the user, the greeting is
\* written.
Connect(u, c) ==
  /\ c \notin registered
  /\ c \notin {FirstChan[v] : v \in Users \ {u}}
  /\ closed' = IF active_connections[u] # NoChan
               THEN closed \cup {active_connections[u]} ELSE closed
  /\ active_connections' = [active_connections EXCEPT ![u] = c]
  /\ connection_info' = connection_info \cup {u}
  /\ registered' = registered \cup {c}
  /\ UNCHANGED <<conn_pc, old_ws, last_connected, svcvars, rlvars, ssvars, libvars>>

\* send_personal_message(user_id, message) is called: with an entry for the
\* user it waits in send_json on the channel of the entry, without one it
\* returns False.
SendPersonalMessage(user_id) ==
  /\ ws_op.state \in {"idle", "returned"}
  /\ ws_op' =
       IF active_connections[user_id] # NoChan
       THEN [IdleOp EXCEPT !.kind = "send", !.state = "writing",
                           !.user = user_id, !.chan = active_connections[user_id],
                           !.was_registered = TRUE]
       ELSE [IdleOp EXCEPT !.kind = "send", !.state = "returned",
                           !.user = user_id, !.result = "false"]
  /\ UNCHANGED <<svcvars, cmvars, hsvars, rlvars, ssvars, prodvars, call, rh, dedup>>

\* What send_json can do on channel c: on a closed channel it raises.
WriteOutcomes(c) == IF c \in closed THEN {FALSE} ELSE BOOLEAN

\* send_personal_message: send_json is over; after a write that raised,
\* disconnect(user_id) is called and False returned.
SendWriteDone ==
  /\ ws_op.kind = "send" /\ ws_op.state = "writing"
  /\ \E ok \in WriteOutcomes(ws_op.chan) :
       /\ active_connections' =
            IF ok THEN active_connections
            ELSE disconnect(active_connections, ws_op.user)
       /\ connection_info' =
            IF ok \/ active_connections[ws_op.user] = NoChan THEN connection_info
            ELSE connection_info \ {ws_op.user}
       /\ closed' = IF ok THEN closed ELSE closed \cup {ws_op.chan}
       /\ ws_op' = [ws_op EXCEPT !.state = "returned",
                                 !.write_ok = IF ok THEN "ok" ELSE "failed",
                                 !.result = IF ok THEN "true" ELSE "false"]
  /\ UNCHANGED <<conn_pc, old_ws, registered, last_connected, svcvars, rlvars,
                 ssvars, prodvars, call, rh, dedup>>

\* The first index from i on of a user with an entry, or Len(user_ids) + 1
RECURSIVE next_connected(_, _, _)
next_connected(user_ids, i, ac) ==
  IF i > Len(user_ids) THEN i
  ELSE IF ac[user_ids[i]] # NoChan THEN i
  ELSE next_connected(user_ids, i + 1, ac)

\* The for loop of broadcast after the send of index i: it ends at the
\* first failure
broadcast_resume_break(user_ids, i, success) ==
  IF success THEN i + 1 ELSE Len(user_ids) + 1

\* The for loop of broadcast after the send of index i: the next index,
\* whatever the send returned
broadcast_resume(user_ids, i, success) == i + 1

\* broadcast from index i of its loop on: up to the write of the next user
\* with an entry, or through the clean-up loop to the return.
broadcast_proceed(op, i, ac, ci) ==
  LET j == next_connected(op.targets, i, ac)
      gone == {u \in SeqToSet(op.disconnected_users) : ac[u] # NoChan}
  IN IF j <= Len(op.targets)
     THEN [op |-> [op EXCEPT !.state = "writing", !.i = j,
                             !.user = op.targets[j], !.chan = ac[op.targets[j]],
                             !.attempted = @ \cup {op.targets[j]}],
           ac |-> ac, ci |-> ci]
     ELSE [op |-> [op EXCEPT !.state = "returned", !.i = j],
           ac |-> [u \in Users |-> IF u \in gone THEN NoChan ELSE ac[u]],
           ci |-> ci \ gone]

\* broadcast(message, user_ids) is called.
Broadcast(user_ids) ==
  /\ ws_op.state \in {"idle", "returned"}
  /\ LET op0 == [IdleOp EXCEPT !.kind = "broadcast", !.targets = user_ids,
                               !.snapshot = active_connections]
         nxt == broadcast_proceed(op0, 1, active_connections, connection_info)
     IN /\ ws_op' = nxt.op
        /\ active_connections' = nxt.ac
        /\ connection_info' = nxt.ci
  /\ UNCHANGED <<svcvars, hsvars, rlvars, ssvars, prodvars, call, rh, dedup>>

\* broadcast: the send_json of its send_personal_message is over; a user
\* whose write raised is disconnected and noted in disconnected_users, and
\* the loop goes on.
BroadcastWriteDone ==
  /\ ws_op.kind = "broadcast" /\ ws_op.state = "writing"
  /\ \E ok \in WriteOutcomes(ws_op.chan) :
       LET u == ws_op.user
           ac1 == IF ok THEN active_connections
                  ELSE disconnect(active_connections, u)
           ci1 == IF ok \/ active_connections[u] = NoChan THEN connection_info
                  ELSE connection_info \ {u}
           op1 == [ws_op EXCEPT
                     !.write_ok = IF ok THEN "ok" ELSE "failed",
                     !.disconnected_users = IF ok THEN @ ELSE Append(@, u),
                     !.failed = IF ok THEN @ ELSE @ \cup {u}]
           nxt == broadcast_proceed(op1, broadcast_resume(ws_op.targets, ws_op.i, ok),
                                    ac1, ci1)
       IN /\ ws_op' = nxt.op
          /\ active_connections' = nxt.ac
          /\ connection_info' = nxt.ci
          /\ closed' = IF ok THEN closed ELSE closed \cup {ws_op.chan}
  /\ UNCHANGED <<conn_pc, old_ws, registered, last_connected, svcvars, rlvars,
                 ssvars, prodvars, call, rh, dedup>>

\* The manager with each user connected on their first channel, or not.
InitSend ==
  /\ InitServiceAtRest /\ InitRateLimiter /\ InitNoShouldSend
  /\ \E on \in SUBSET Users :
       /\ active_connections = [u \in Users |-> IF u \in on THEN FirstChan[u]
                                                            ELSE NoChan]
       /\ connection_info = on
       /\ registered = {FirstChan[u] : u \in on}
  /\ conn_pc = [c \in Chans |-> "idle"]
  /\ old_ws = [c \in Chans |-> NoChan]
  /\ closed = {}
  /\ last_connected = NoChan

NextSend ==
  \/ \E u \in Users : SendPersonalMessage(u)
  \/ SendWriteDone
  \/ \E user_ids \in BroadcastTargets : Broadcast(user_ids)
  \/ BroadcastWriteDone
  \/ \E u \in Users, c \in Chans : Connect(u, c)

SpecSend == InitSend /\ [][NextSend]_vars

\* --------------------------------------------------------- NewsDeduplicator
\* NewsDeduplicator(similarity_threshold=0.85), in hundredths
SimilarityThreshold == 85
MaxBatch == 3

\* The URLs of the articles: two that differ in a tracking parameter only,
\* and a third.
ArticleUrls ==
  {"https://a.com/1", "https://a.com/1?utm_source=t", "https://b.com/2"}

\* _normalize_url(url) on these URLs
normalize_url(url) ==
  IF url = "https://a.com/1?utm_source=t" THEN "https://a.com/1" ELSE url

\* The titles are the prefixes, of these lengths, of one text without
\* punctuation: a title is given by its length.
ArticleTitles == {3, 4, 5}

MinLen(a, b) == IF a <= b THEN a ELSE b

\* _calculate_title_similarity(title1, title2) >= similarity_threshold:
\* SequenceMatcher.ratio() is 2 * M / T, with M the matched characters (for
\* two prefixes of one text the shorter title) and T the two lengths added.
similar_title(title1, title2) ==
  200 * MinLen(title1, title2) >= SimilarityThreshold * (title1 + title2)

\* The articles have no content and no summary: the hash is the digest of
\* the title, and two titles have one digest when they are equal.
generate_content_hash(article) == <<"md5", article.title>>

Articles == [url : ArticleUrls, title : ArticleTitles]

Batches == UNION {[1..n -> Articles] : n \in 0..MaxBatch}

\* is_duplicate that compares the URLs only
is_duplicate_url_only(article, seen, existing_articles) ==
  \/ normalize_url(article.url) \in seen.seen_urls
  \/ \E k \in 1..Len(existing_articles) :
       normalize_url(existing_articles[k].url) = normalize_url(article.url)

\* is_duplicate(article, existing_articles)[0] with the three seen sets
is_duplicate(article, seen, existing_articles) ==
  \/ normalize_url(article.url) \in seen.seen_urls
  \/ generate_content_hash(article) \in seen.seen_hashes
  \/ \E seen_title \in seen.seen_titles : similar_title(article.title, seen_title)
  \/ \E k \in 1..Len(existing_articles) :
       \/ normalize_url(existing_articles[k].url) = normalize_url(article.url)
       \/ similar_title(article.title, existing_articles[k].title)

\* add_article(article) on the three seen sets
add_article(seen, article) ==
  [seen_urls |-> seen.seen_urls \cup {normalize_url(article.url)},
   seen_titles |-> seen.seen_titles \cup {article.title},
   seen_hashes |-> seen.seen_hashes \cup {generate_content_hash(article)}]

\* The loop of filter_duplicates from its i-th article on
RECURSIVE filter_loop(_, _, _, _)
filter_loop(articles, i, seen, unique_articles) ==
  IF i > Len(articles) THEN [seen |-> seen, unique_articles |-> unique_articles]
  ELSE IF ~is_duplicate(articles[i], seen, unique_articles)
       THEN filter_loop(articles, i + 1, add_article(seen, articles[i]),
                        Append(unique_articles, articles[i]))
       ELSE filter_loop(articles, i + 1, seen, unique_articles)

SeenOf(d) ==
  [seen_urls |-> d.seen_urls, seen_titles |-> d.seen_titles,
   seen_hashes |-> d.seen_hashes]

\* add_article(article) is called by the collector, before the batch
AddArticle ==
  /\ ~dedup.called
  /\ \E article \in Articles :
       LET seen == add_article(SeenOf(dedup), article) IN
       dedup' = [dedup EXCEPT !.seen_urls = seen.seen_urls,
                              !.seen_titles = seen.seen_titles,
                              !.seen_hashes = seen.seen_hashes]
  /\ UNCHANGED <<svcvars, cmvars, hsvars, rlvars, ssvars, prodvars, call, rh, ws_op>>

\* filter_duplicates(articles), called once with a batch of up to MaxBatch
\* articles
FilterDuplicates ==
  /\ ~dedup.called
  /\ \E articles \in Batches :
       LET r == filter_loop(articles, 1, SeenOf(dedup), <<>>) IN
       dedup' = [seen_urls |-> r.seen.seen_urls, seen_titles |-> r.seen.seen_titles,
                 seen_hashes |-> r.seen.seen_hashes,
                 called |-> TRUE, articles |-> articles,
                 unique_articles |-> r.unique_articles,
                 before |-> SeenOf(dedup), refiltered |-> FALSE, again |-> <<>>]
  /\ UNCHANGED <<svcvars, cmvars, hsvars, rlvars, ssvars, prodvars, call, rh, ws_op>>

InitDedup ==
  InitServiceAtRest /\ InitRegistry /\ InitRateLimiter /\ InitNoShouldSend

NextDedup ==
  \/ AddArticle
  \/ FilterDuplicates

SpecDedup == InitDedup /\ [][NextDedup]_vars

\* filter_duplicates is called a second time on the same deduplicator, with
\* the list the first call returned.
FilterAgain ==
  /\ dedup.called /\ ~dedup.refiltered
  /\ LET r == filter_loop(dedup.unique_articles, 1, SeenOf(dedup), <<>>) IN
     dedup' = [dedup EXCEPT !.seen_urls = r.seen.seen_urls,
                            !.seen_titles = r.seen.seen_titles,
                            !.seen_hashes = r.seen.seen_hashes,
                            !.refiltered = TRUE,
                            !.again = r.unique_articles]
  /\ UNCHANGED <<svcvars, cmvars, hsvars, rlvars, ssvars, prodvars, call, rh, ws_op>>

NextRefilter ==
  \/ AddArticle
  \/ FilterDuplicates
  \/ FilterAgain

SpecRefilter == InitDedup /\ [][NextRefilter]_vars

\* Everything but the call of a function without state.
statevars == <<svcvars, cmvars, hsvars, rlvars, ssvars, prodvars, rh, ws_op, dedup>>

InitPure ==
  InitServiceAtRest /\ InitRegistry /\ InitRateLimiter /\ InitNoShouldSend

\* ------------------------------------------ NewsDeduplicator._normalize_url
\* tracking_params
TrackingParams ==
  {"utm_source", "utm_medium", "utm_campaign", "utm_content", "utm_term",
   "fbclid", "gclid", "ref", "source"}

MaxQuery == 2

\* The URLs are https://x.com/a with some of its letters in upper case or
\* none, with a slash after the path or none, and with a query of up to
\* MaxQuery of these parameters <<key, value>>, no parameter twice.
QueryParams ==
  {<<"utm_source", "t">>, <<"ref", "r">>, <<"id", "1">>, <<"id", "2">>,
   <<"page", "1">>}

Queries ==
  {q \in UNION {[1..n -> QueryParams] : n \in 0..MaxQuery} :
     \A i, j \in 1..Len(q) : i # j => q[i] # q[j]}

Urls == [upper : BOOLEAN, slash : BOOLEAN, query : Queries]

\* url.lower()
lower(url) == [url EXCEPT !.upper = FALSE]

\* The keys of parse_qs(query)
query_keys(query) == {query[i][1] : i \in 1..Len(query)}

\* parse_qs(query)[k][0]: the value of the first parameter of key k
first_value(query, k) ==
  query[CHOOSE i \in 1..Len(query) :
          query[i][1] = k /\ \A j \in 1..(i - 1) : query[j][1] # k][2]

\* _normalize_url(url). The string it returns is given by its parts: the
\* parameters k=v[0] of the keys that are no tracking parameters (joined in
\* the order of the keys, so the set of them gives the string), and the
\* slash after the path, which rstrip('/') removes only where no query
\* follows it.
normalize_url_parts(url) ==
  LET parsed == lower(url)
      filtered_params == query_keys(parsed.query) \ TrackingParams
      param_str == {<<k, first_value(parsed.query, k)>> : k \in filtered_params}
  IN [upper |-> parsed.upper,
      slash |-> IF param_str = {} THEN FALSE ELSE parsed.slash,
      query |-> param_str]

\* is_duplicate(article)[1] of an article of the normalized URL nurl, up to
\* the similarity it prints
is_duplicate_reason(nurl, content_hash, title, seen) ==
  IF nurl \in seen.seen_urls THEN "duplicate_url"
  ELSE IF content_hash \in seen.seen_hashes THEN "duplicate_content"
  ELSE IF \E seen_title \in seen.seen_titles : similar_title(title, seen_title)
       THEN "similar_title"
  ELSE "unique"

\* add_article on a fresh deduplicator with an article of url1 and the
\* shortest title, then is_duplicate of an article of url2 and the longest
\* title, which is not similar to the other.
NormalizeUrls ==
  /\ call.fn = "none"
  /\ \E url1, url2 \in Urls :
       LET seen == [seen_urls |-> {normalize_url_parts(url1)},
                    seen_titles |-> {3}, seen_hashes |-> {<<"md5", 3>>}]
       IN call' = [fn |-> "_normalize_url", url1 |-> url1, url2 |-> url2,
                   normalized1 |-> normalize_url_parts(url1),
                   normalized2 |-> normalize_url_parts(url2),
                   reason |-> is_duplicate_reason(normalize_url_parts(url2),
                                                  <<"md5", 5>>, 5, seen)]
  /\ UNCHANGED statevars

NextNormalize == NormalizeUrls

SpecNormalize == InitPure /\ [][NextNormalize]_vars

\* ---------------------------------------------------- merge_similar_articles
\* The loop of merge_similar_articles from its i-th article on: an article
\* not yet in a group opens one, which takes every later article not yet in
\* a group whose title is similar to the title of the one that opened it.
\* groups are the sets of the indices of the articles merged into one.
RECURSIVE merge_loop(_, _, _, _)
merge_loop(articles, i, processed_indices, merged_groups) ==
  IF i > Len(articles) THEN merged_groups
  ELSE IF i \in processed_indices
       THEN merge_loop(articles, i + 1, processed_indices, merged_groups)
  ELSE LET similar_group ==
             {i} \cup {j \in (i + 1)..Len(articles) :
                         /\ j \notin processed_indices
                         /\ similar_title(articles[i].title, articles[j].title)}
       IN merge_loop(articles, i + 1, processed_indices \cup similar_group,
                     Append(merged_groups, similar_group))

\* merge_similar_articles(articles) is called.
MergeSimilarArticles ==
  /\ call.fn = "none"
  /\ \E articles \in Batches :
       call' = [fn |-> "merge_similar_articles", articles |-> articles,
                merged_groups |-> merge_loop(articles, 1, {}, <<>>)]
  /\ UNCHANGED statevars

NextMerge == MergeSimilarArticles

SpecMerge == InitPure /\ [][NextMerge]_vars

\* --------------------------------------------------------- ImpactCalculator
\* The scores are fractions: sentiment_score, sentiment_confidence,
\* relevance_score and source_credibility are given in tenths, and each
\* result is a numerator over the denominator named with it. Rounding to
\* the nearest float is monotonic and keeps 0.0 and 1.0, so it changes
\* neither an order between two results nor a result's place in [0, 1].
RelationshipTypes ==
  {"competitor", "partner", "supplier", "customer", "investor", "subsidiary"}

NoRelationship == "none"

\* CompanyRelationWeight.get_default_weight(relationship), in tenths, with
\* the weights of COMPETITOR and INVESTOR exchanged
get_default_weight_swapped(relationship) ==
  IF relationship = "competitor" THEN 5
  ELSE IF relationship = "partner" THEN 7
  ELSE IF relationship = "supplier" THEN 6
  ELSE IF relationship = "customer" THEN 6
  ELSE IF relationship = "investor" THEN 8
  ELSE IF relationship = "subsidiary" THEN 9
  ELSE 5

\* CompanyRelationWeight.get_default_weight(relationship), in tenths
get_default_weight(relationship) ==
  IF relationship = "competitor" THEN 8
  ELSE IF relationship = "partner" THEN 7
  ELSE IF relationship = "supplier" THEN 6
  ELSE IF relationship = "customer" THEN 6
  ELSE IF relationship = "investor" THEN 5
  ELSE IF relationship = "subsidiary" THEN 9
  ELSE 5

\* ImpactFactors.get_magnitude_weight(), in tenths
get_magnitude_weight(news_magnitude) ==
  IF news_magnitude = "minor" THEN 3
  ELSE IF news_magnitude = "moderate" THEN 6
  ELSE IF news_magnitude = "major" THEN 9
  ELSE IF news_magnitude = "critical" THEN 10
  ELSE 5

\* ImpactFactors.get_time_decay_factor() as a fraction of TimeDecayDen, for
\* whole hours: 1.0 - 0.3 h / 24, 0.7 - 0.2 (h - 24) / 48,
\* 0.5 - 0.2 (h - 72) / 96, 0.3
TimeDecayDen == 960

time_decay_fraction(hours_elapsed) ==
  IF hours_elapsed <= 24 THEN 960 - 12 * hours_elapsed
  ELSE IF hours_elapsed <= 72 THEN 768 - 4 * hours_elapsed
  ELSE IF hours_elapsed <= 168 THEN 624 - 2 * hours_elapsed
  ELSE 288

MinOf2(a, b) == IF a <= b THEN a ELSE b
MaxOf2(a, b) == IF a >= b THEN a ELSE b

\* math.log(n) / math.log(10) in hundredths, for the n that occur
log10_hundredths(n) ==
  IF n = 1 THEN 0 ELSE IF n = 5 THEN 70 ELSE IF n = 21 THEN 132 ELSE 100

\* _calculate_base_score, in thousandths
calculate_base_score(factors) ==
  LET magnitude_score == get_magnitude_weight(factors.news_magnitude)
      source_score == factors.source_credibility
      mention_score ==
        MinOf2(100, log10_hundredths(factors.company_mentioned_count + 1))
  IN magnitude_score * 40 + source_score * 30 + mention_score * 3

\* _calculate_sentiment_factor, in hundredths
calculate_sentiment_factor(sentiment_score, confidence) ==
  LET factor == IF sentiment_score > 5 THEN (sentiment_score - 5) * 2
                ELSE (5 - sentiment_score) * 2
  IN factor * confidence

\* _calculate_relevance_factor, in thousandths
calculate_relevance_factor(factors) ==
  LET r0 == factors.relevance_score * 100
      r1 == IF factors.is_primary_subject THEN MinOf2(1000, (r0 * 15) \div 10) ELSE r0
      r2 == IF factors.sector_impact THEN MinOf2(1000, (r1 * 12) \div 10) ELSE r1
      r3 == IF factors.market_impact THEN MinOf2(1000, (r2 * 13) \div 10) ELSE r2
  IN r3

\* _calculate_relationship_factor, in tenths
calculate_relationship_factor(factors) ==
  IF factors.is_primary_subject THEN 10
  ELSE IF factors.relationship_type # NoRelationship
       THEN get_default_weight(factors.relationship_type)
  ELSE 5

\* _compute_final_score, as a fraction of ScoreDen: the weighted sum has
\* the denominator 2400000, the relationship factor is in tenths.
ScoreDen == 24000000

compute_final_score(base_score, sentiment_factor, relevance_factor, time_decay_factor, relationship_factor, factors) ==
  LET weighted_score ==
        (base_score * 20 + sentiment_factor * 300 + relevance_factor * 25
         + factors.source_credibility * 1500) * 24
        + time_decay_factor * 250
      final_score == weighted_score * relationship_factor
  IN MaxOf2(0, MinOf2(ScoreDen, final_score))

\* min(1.0, company_mentioned_count / 5) without the min, in tenths
mention_confidence_unbounded(company_mentioned_count) ==
  2 * company_mentioned_count

\* min(1.0, company_mentioned_count / 5), in tenths
mention_confidence(company_mentioned_count) ==
  MinOf2(10, 2 * company_mentioned_count)

\* _calculate_confidence, as a fraction of ConfidenceDen
ConfidenceDen == 40

calculate_confidence(factors) ==
  factors.sentiment_confidence + factors.source_credibility
  + mention_confidence(factors.company_mentioned_count)
  + (IF factors.is_primary_subject THEN 10 ELSE 7)

\* calculate_impact(factors, article_id, company_id).final_score
final_score_of(factors) ==
  compute_final_score(
    calculate_base_score(factors),
    calculate_sentiment_factor(factors.sentiment_score, factors.sentiment_confidence),
    calculate_relevance_factor(factors),
    time_decay_fraction(factors.hours_elapsed),
    calculate_relationship_factor(factors),
    factors)

\* ------------------------------------------- get_time_decay_factor in floats
\* A Python float is an IEEE 754 binary64 number: Precision significant
\* bits, and every operation rounds its exact result to the nearest such
\* number, a tie to the even one. A number is written here as Width bits,
\* the most significant first, counting units of 2^-FractionBits; every
\* float that occurs is a whole number of these units, and every quotient
\* has more than Precision + 1 significant bits. The arithmetic works on
\* limbs of LimbBits bits.
Precision == 53

FractionBits == 120

LimbBits == 12

NumLimbs == 11

Width == NumLimbs * LimbBits

LimbBase == 4096   \* 2^LimbBits

RECURSIVE Repeat(_, _)
Repeat(pattern, n) == IF n = 0 THEN <<>> ELSE pattern \o Repeat(pattern, n - 1)

\* The float with the significand bits given (the first one counts
\* 2^exponent)
FloatOf(significand, exponent) ==
  LET lead == Width - FractionBits - exponent
  IN [i \in 1..Width |->
        IF i >= lead /\ i < lead + Len(significand)
        THEN significand[i - lead + 1] ELSE 0]

\* The literals 0.3 (0x1.3333333333333p-2), 0.2 (0x1.999999999999ap-3),
\* 0.7 (0x1.6666666666666p-1), 0.5 and 1.0
Float_0_3 == FloatOf(<<1>> \o Repeat(<<0, 0, 1, 1>>, 13), -2)
Float_0_2 == FloatOf(<<1>> \o Repeat(<<1, 0, 0, 1>>, 12) \o <<1, 0, 1, 0>>, -3)
Float_0_7 == FloatOf(<<1>> \o Repeat(<<0, 1, 1, 0>>, 13), -1)
Float_0_5 == FloatOf(<<1>>, -1)
Float_1_0 == FloatOf(<<1>>, 0)

\* The limbs of a number, and the number of limbs
RECURSIVE LimbValue(_, _, _)
LimbValue(bits, j, k) ==
  IF k = 0 THEN 0
  ELSE 2 * LimbValue(bits, j, k - 1) + bits[(j - 1) * LimbBits + k]

LimbsOf(bits) == [j \in 1..NumLimbs |-> LimbValue(bits, j, LimbBits)]

RECURSIVE TwoTo(_)
TwoTo(k) == IF k = 0 THEN 1 ELSE 2 * TwoTo(k - 1)

BitsOfLimbs(limbs) ==
  [i \in 1..Width |->
     (limbs[(i - 1) \div LimbBits + 1]
        \div TwoTo(LimbBits - 1 - ((i - 1) % LimbBits))) % 2]

\* The float nearest to the number bits (plus a fraction of a unit when
\* inexact), a tie rounded to the even significand
RoundToFloat(bits, inexact) ==
  IF \A i \in 1..Width : bits[i] = 0 THEN bits
  ELSE LET lead == CHOOSE i \in 1..Width :
                     bits[i] = 1 /\ \A j \in 1..(i - 1) : bits[j] = 0
           last == lead + Precision - 1
       IN IF last >= Width THEN bits
          ELSE LET half == bits[last + 1] = 1
                   more == inexact \/ \E i \in (last + 2)..Width : bits[i] = 1
                   up == half /\ (more \/ bits[last] = 1)
                   zero == CHOOSE j \in 1..last :
                             bits[j] = 0 /\ \A l \in (j + 1)..last : bits[l] = 1
               IN [i \in 1..Width |->
                     IF ~up THEN (IF i <= last THEN bits[i] ELSE 0)
                     ELSE IF i < zero THEN bits[i]
                     ELSE IF i = zero THEN 1 ELSE 0]

\* limbs times the small number n, from the last limb to the first
RECURSIVE MulFrom(_, _, _, _, _)
MulFrom(limbs, n, j, carry, acc) ==
  IF j = 0 THEN acc
  ELSE LET t == limbs[j] * n + carry
       IN MulFrom(limbs, n, j - 1, t \div LimbBase, <<t % LimbBase>> \o acc)

\* limbs divided by the small number d, from the first limb to the last
RECURSIVE DivFrom(_, _, _, _, _)
DivFrom(limbs, d, j, quot, rem) ==
  IF j > NumLimbs THEN [quot |-> quot, rem |-> rem]
  ELSE LET r == LimbBase * rem + limbs[j]
       IN DivFrom(limbs, d, j + 1, Append(quot, r \div d), r % d)

\* a minus b for a >= b, from the last limb to the first
RECURSIVE SubFrom(_, _, _, _, _)
SubFrom(a, b, j, borrow, acc) ==
  IF j = 0 THEN acc
  ELSE LET t == a[j] - b[j] - borrow
       IN IF t < 0 THEN SubFrom(a, b, j - 1, 1, <<t + LimbBase>> \o acc)
          ELSE SubFrom(a, b, j - 1, 0, <<t>> \o acc)

\* x * n, x / d and a - x in floats, for a float x, whole numbers n and d,
\* and a float a >= x
float_mul(x, n) ==
  RoundToFloat(BitsOfLimbs(MulFrom(LimbsOf(x), n, NumLimbs, 0, <<>>)), FALSE)

float_div(x, d) ==
  LET q == DivFrom(LimbsOf(x), d, 1, <<>>, 0)
  IN RoundToFloat(BitsOfLimbs(q.quot), q.rem # 0)

float_sub(a, x) ==
  RoundToFloat(
    BitsOfLimbs(SubFrom(LimbsOf(a), LimbsOf(x), NumLimbs, 0, <<>>)), FALSE)

\* a < b for two numbers
float_less(a, b) ==
  \E i \in 1..Width : a[i] < b[i] /\ \A j \in 1..(i - 1) : a[j] = b[j]

\* ImpactFactors.get_time_decay_factor() for an age of hours_elapsed whole
\* hours, as the float it returns
get_time_decay_factor(hours_elapsed) ==
  IF hours_elapsed <= 24
    THEN float_sub(Float_1_0, float_div(float_mul(Float_0_3, hours_elapsed), 24))
  ELSE IF hours_elapsed <= 72
    THEN float_sub(Float_0_7, float_div(float_mul(Float_0_2, hours_elapsed - 24), 48))
  ELSE IF hours_elapsed <= 168
    THEN float_sub(Float_0_5, float_div(float_mul(Float_0_2, hours_elapsed - 72), 96))
  ELSE Float_0_3

\* The ages of the calls: every whole hour up to MaxHours, and FarHours
MaxHours == 170

FarHours == 1000

ElapsedHours == 0..MaxHours \cup {FarHours}

TimeDecay == [h \in ElapsedHours |-> get_time_decay_factor(h)]

\* get_time_decay_factor is called for two ages, hours1 < hours2.
GetTimeDecayFactor ==
  /\ call.fn = "none"
  /\ \E h1, h2 \in ElapsedHours :
       /\ h1 < h2
       /\ call' = [fn |-> "get_time_decay_factor", hours1 |-> h1, hours2 |-> h2,
                   decay1 |-> TimeDecay[h1], decay2 |-> TimeDecay[h2]]
  /\ UNCHANGED statevars

NextDecay == GetTimeDecayFactor

SpecDecay == InitPure /\ [][NextDecay]_vars

\* The valid ImpactFactors of the calls; hours_elapsed is analysis_date
\* minus published_date.
ImpactFactorsSet ==
  [sentiment_score : {0, 5, 10}, sentiment_confidence : {0, 10},
   relevance_score : {0, 5, 10}, company_mentioned_count : {0, 4, 20},
   is_primary_subject : BOOLEAN,
   relationship_type : {NoRelationship, "competitor", "investor", "subsidiary"},
   hours_elapsed : {0, 24, 100, 1000}, source_credibility : {0, 10},
   news_magnitude : {"minor", "critical", "unknown"},
   sector_impact : BOOLEAN, market_impact : BOOLEAN]

\* The factors with the subject and the relationship replaced
RelationCases == {"primary", NoRelationship} \cup RelationshipTypes

with_relation(factors, rel) ==
  [factors EXCEPT !.is_primary_subject = (rel = "primary"),
                  !.relationship_type = IF rel = "primary" THEN NoRelationship ELSE rel]

\* calculate_impact is called with factors, and with the factors that
\* differ from them in the subject and the relationship only.
CalculateImpact ==
  /\ call.fn = "none"
  /\ \E factors \in ImpactFactorsSet :
       call' = [fn |-> "calculate_impact", factors |-> factors,
                final_score |-> final_score_of(factors),
                confidence |-> calculate_confidence(factors),
                by_relation |->
                  [rel \in RelationCases |-> final_score_of(with_relation(factors, rel))]]
  /\ UNCHANGED statevars

NextImpact == CalculateImpact

SpecImpact == InitPure /\ [][NextImpact]_vars

\* ------------------------------------------------------------------ claims
InBuckets(q, id) == \E p \in Priorities : id \in SeqToSet(q[p])
InRetry(rq, id) == \E i \in 1..Len(rq) : rq[i].notification = id
Rank(p) == CHOOSE i \in 1..4 : PriorityOrder[i] = p
Ids == 1..Len(notifs)

\* C1: a notification leaves a bucket only as the oldest of its bucket and
\* only while every bucket of higher priority is empty, and a notification
\* is taken from the retry schedule (the retried counter grows) only while
\* all four buckets are empty and the head of the schedule is due.
C1_StrictPriority ==
  [][ /\ \A p \in Priorities :
           Len(queues'[p]) < Len(queues[p]) =>
             /\ queues'[p] = Tail(queues[p])
             /\ ~InBuckets(queues', Head(queues[p]))
             /\ \A h \in Priorities : Rank(h) < Rank(p) => queues[h] = <<>>
      /\ stats'.retried # stats.retried =>
             /\ \A p \in Priorities : queues[p] = <<>>
             /\ retry_queue # <<>>
             /\ Head(retry_queue).retry_in <= 0
             /\ stats'.retried = stats.retried + 1
    ]_vars

\* C1: LOW was enqueued first, CRITICAL second, and the first dequeue took
\* the CRITICAL one: it is being sent while the LOW one still waits.
C1_Witness ==
  /\ Len(notifs) >= 2
  /\ notifs[1].priority = "low" /\ notifs[2].priority = "critical"
  /\ queues["low"] = <<1>> /\ queues["critical"] = <<>>
  /\ processing = {2} /\ pc = "ws_send" /\ cur = 2
  /\ stats.sent = 0 /\ stats.failed = 0

\* C2: the buckets never hold more than max_size notifications; an enqueue
\* on a full queue returns false and leaves the buckets and the enqueued
\* counter as they were, any other returns true and appends the notification
\* to the tail of the bucket of its priority.
C2_Backpressure ==
  /\ [](total_size(queues) <= max_size)
  /\ [][ /\ Len(notifs') > Len(notifs) =>
            (/\ total_size(queues) < max_size
             /\ enqueue_result' = "true"
             /\ queues' = [queues EXCEPT ![notifs'[Len(notifs')].priority] =
                                            Append(@, Len(notifs'))]
             /\ stats'.enqueued = stats.enqueued + 1)
         /\ (enqueue_result' # enqueue_result /\ enqueue_result' = "false") =>
            /\ total_size(queues) >= max_size
            /\ UNCHANGED <<queues, stats, notifs>>
         /\ stats'.enqueued # stats.enqueued => Len(notifs') > Len(notifs)
        ]_vars

\* C2: an enqueue was refused with the buckets holding max_size notifications.
C2_Witness ==
  /\ enqueue_result = "false"
  /\ total_size(queues) = max_size
  /\ stats.enqueued = max_size

\* C3 (as claimed): while a notification is expired (the current time is
\* later than its expires_at), no step delivers it on a channel or gives it
\* a sent_at.
C3_ExpiredNeverSent ==
  [][ \A id \in Ids :
        is_expired(notifs[id]) =>
          /\ delivered'[id] = delivered[id]
          /\ notifs'[id].sent_at = notifs[id].sent_at
    ]_vars

MaxRetriesOf(n) ==
  IF n.priority = "critical" THEN MaxRetriesCritical ELSE MaxRetriesOther

\* C4 (as claimed): a CRITICAL notification is dropped on its 4th failure
\* and not before, any other is dropped once it has failed 2 times; a dropped
\* notification is in no bucket and not in the retry schedule.
C4_AsClaimed ==
  \A id \in Ids :
    /\ notifs[id].priority = "critical" => (id \in dropped <=> failures[id] >= 4)
    /\ (notifs[id].priority # "critical" /\ failures[id] >= 2) => id \in dropped
    /\ id \in dropped => (~InBuckets(queues, id) /\ ~InRetry(retry_queue, id))

\* C4 (amended): every failure up to the retry limit (3 for CRITICAL, 2
\* otherwise) reschedules the notification, the next failure (the 4th for
\* CRITICAL, the 3rd otherwise) drops it, and a dropped notification is in no
\* bucket, not in the retry schedule and not in the processing set, so that
\* it never fails or is dequeued again.
C4_RetryExhaustion ==
  \A id \in Ids :
    LET m == MaxRetriesOf(notifs[id]) IN
    /\ failures[id] <= m + 1
    /\ (id \in dropped <=> failures[id] = m + 1)
    /\ notifs[id].retry_count = (IF failures[id] <= m THEN failures[id] ELSE m)
    /\ id \in dropped =>
         /\ ~InBuckets(queues, id)
         /\ ~InRetry(retry_queue, id)
         /\ id \notin processing
    /\ (failures[id] > 0 /\ id \notin dropped /\ ~notifs[id].sent_at) =>
         (InRetry(retry_queue, id) \/ id \in processing)

\* C4: a CRITICAL notification was dropped at its 4th failure and another
\* one at its 3rd.
C4_Witness ==
  /\ \E id \in Ids : /\ notifs[id].priority = "critical"
                      /\ id \in dropped /\ failures[id] = 4
  /\ \E id \in Ids : /\ notifs[id].priority = "medium"
                      /\ id \in dropped /\ failures[id] = 3

\* C5 (as claimed): at a start() that follows a stop(), every accepted
\* notification that is neither sent nor dropped (it is in a bucket, in the
\* retry schedule or in the processing set) is in the queue afterwards.
C5_NothingLostOnRestart ==
  [][ (~running /\ running') =>
        \A id \in Ids :
          (InBuckets(queues, id) \/ InRetry(retry_queue, id) \/ id \in processing)
            => (InBuckets(queues', id) \/ InRetry(retry_queue', id))
    ]_vars

\* C6 (as claimed): in every interval as long as the domain's window, the
\* number of calls of wait_if_needed that returned is at most the quota.
C6_QuotaPerWindow ==
  \A a \in 0..RLMaxTime :
    Cardinality({i \in 1..Len(rl_returns) :
                   a <= rl_returns[i] /\ rl_returns[i] < a + limit_config.window})
      <= limit_config.requests

\* C7 (as claimed): as long as connect() calls are all that happened (no
\* receive loop has ended), every channel that was registered for the user
\* and is not the user's entry now has been closed, and once no connect() is
\* under way an entry of the user is the channel of the connect() that
\* returned last.
C7_LastConnectionWins ==
  (\A c \in Chans : conn_pc[c] # "ended") =>
    /\ \A c \in registered : c # active_connections[User] => c \in closed
    /\ ( /\ active_connections[User] # NoChan
         /\ \A c \in Chans : conn_pc[c] \notin {"accept", "close_old", "greeting"} )
         => active_connections[User] = last_connected

\* The hour h lies in the quiet window from start to end, which may cross
\* midnight.
InQuietWindow(start, end, h) ==
  IF start <= end THEN start <= h /\ h < end ELSE h >= start \/ h < end

\* C8 (as claimed): with the enabled flag off or the type disabled should_send
\* returns false; with everything enabled and a quiet window configured it
\* returns, at an hour inside the window, true for HIGH_IMPACT_NEWS and false
\* for any other type, and true at an hour outside the window.
C8_QuietHoursExemption ==
  ss_result # "none" =>
    /\ (~ss_settings.enabled \/ ~ss_settings.type_settings[ss_type])
         => ss_result = "false"
    /\ ( /\ ss_settings.enabled
         /\ \A t \in NotifTypes : ss_settings.type_settings[t]
         /\ ss_settings.quiet_hours_start # NoHour
         /\ ss_settings.quiet_hours_end # NoHour )
         => ss_result =
              IF InQuietWindow(ss_settings.quiet_hours_start,
                               ss_settings.quiet_hours_end, ss_hour)
                 /\ ss_type # HIGH_IMPACT_NEWS
              THEN "false" ELSE "true"

\* The stored settings of the recipient block a notification of type t at
\* hour h: notifications disabled, the type disabled, or a non-exempt type
\* inside the quiet hours.
SettingsBlock(s, t, h) ==
  \/ ~s.enabled
  \/ ~s.type_settings[t]
  \/ /\ s.quiet_hours_start # NoHour /\ s.quiet_hours_end # NoHour
     /\ InQuietWindow(s.quiet_hours_start, s.quiet_hours_end, h)
     /\ t # HIGH_IMPACT_NEWS

\* The worker takes a notification off the queue in this step.
IsDequeue ==
  /\ running /\ pc = "idle"
  /\ \/ stats'.retried # stats.retried
     \/ \E p \in Priorities : Len(queues'[p]) < Len(queues[p])

\* C9 (as claimed): the dispatch of a notification that the recipient's
\* settings block writes it to no channel, leaves it neither in the
\* processing set nor in the retry schedule, and leaves the failed counter
\* as it was.
C9_BlockedIsNoOp ==
  [][ IsDequeue =>
        LET id == dequeue_choice(queues, retry_queue).id IN
        SettingsBlock(settings, notifs[id].type, hour) =>
          /\ pc' = "idle"
          /\ delivered'[id] = delivered[id]
          /\ id \notin processing'
          /\ ~InRetry(retry_queue', id)
          /\ stats'.failed = stats.failed
    ]_vars

\* C10 (as claimed): whenever a channel delivers a notification the dispatch
\* succeeds (the notification has a sent_at, leaves the processing set, the
\* sent counter grows and mark_failed is not called), and mark_failed is
\* called only when no channel delivered.
C10_SuccessIffDelivered ==
  [][ \A id \in Ids :
        /\ delivered'[id] # delivered[id] =>
             /\ notifs'[id].sent_at
             /\ id \notin processing'
             /\ stats'.sent = stats.sent + 1
             /\ failures'[id] = failures[id]
        /\ failures'[id] # failures[id] => delivered'[id] = delivered[id]
    ]_vars

\* The dispatch of notification id comes to its end in this step.
SendEnds(id) ==
  /\ pc' = "idle"
  /\ \/ pc = "ws_send" /\ cur = id
     \/ IsDequeue /\ dequeue_choice(queues, retry_queue).id = id

Terminal(id) ==
  /\ id \in Ids
  /\ ~InBuckets(queues, id) /\ ~InRetry(retry_queue, id) /\ id \notin processing

\* C12: with the worker running and time advancing, every notification that
\* enqueue accepted is eventually sent or dropped for good (from some point
\* on all accepted notifications are terminal), and it is dequeued at most
\* 4 times when CRITICAL and at most 3 times otherwise.
C12_EventuallyTerminal ==
  /\ <>[](\A id \in Ids : Terminal(id))
  /\ [](\A id \in Ids : dequeued[id] <= MaxRetriesOf(notifs[id]) + 1)

\* C12: a CRITICAL notification was dequeued 4 times and dropped, and a
\* MEDIUM one was sent at its 3rd dequeue.
C12_Witness ==
  \E i, j \in Ids :
    /\ notifs[i].priority = "critical" /\ dequeued[i] = 4
    /\ i \in dropped /\ Terminal(i)
    /\ notifs[j].priority = "medium" /\ dequeued[j] = 3
    /\ notifs[j].sent_at /\ j \notin dropped /\ Terminal(j)

\* C13 (as claimed): the API never reports a notification as queued when
\* enqueue returned false for it.
C13_RejectionObserved ==
  reported.message = "queued" => reported.enqueue_result = "true"

\* C14 (as claimed): a start() puts every stored notification that has no
\* sent_at and is not expired into a bucket of the queue.
C14_ReloadOnStart ==
  [][ (~running /\ running') =>
        \A id \in db.rows \ db.sent :
          ~is_expired(notifs[id]) => InBuckets(queues', id)
    ]_vars

\* C15: create_high_impact_notification puts exactly one HIGH_IMPACT_NEWS
\* notification in the queue for every listed watcher whose stored
\* impact_threshold is at most the score, and none for any other user.
C15_OnePerWatcher ==
  (high_impact.called /\ high_impact.lookup = "found") =>
    \A u \in Users :
      high_impact.enqueued[u] =
        IF u \in SeqToSet(high_impact.user_ids)
           /\ high_impact.stored[u] <= high_impact.score
        THEN 1 ELSE 0

\* C16: when every invocation of func fails with a timeout or a transport
\* error, func is invoked max_retries + 1 times and the error of the last
\* attempt is raised; after a success the result is returned and func is
\* not invoked again.
Retryable == {"timeout", "aiohttp"}

C16_RetriesAfterFirst ==
  /\ (/\ rh.state = "raised" /\ rh.max_retries >= 1
      /\ \A i \in 1..Len(rh.calls) : rh.calls[i] \in Retryable)
        => /\ Len(rh.calls) = rh.max_retries + 1
           /\ rh.error = rh.calls[Len(rh.calls)]
  /\ \A i \in 1..Len(rh.calls) :
        rh.calls[i] = "ok" => (i = Len(rh.calls) /\ rh.state = "returned")

\* C17: an error of func that is neither a timeout nor a transport error is
\* raised at once, on the first attempt and after retried failures alike:
\* it is the last invocation, the call has raised that error, and the only
\* sleeps are the ones that followed the retried failures before it.
C17_OtherErrorAtOnce ==
  \A i \in 1..Len(rh.calls) :
    rh.calls[i] \notin Retryable \cup {"ok"} =>
      /\ i = Len(rh.calls)
      /\ rh.state = "raised"
      /\ rh.error = rh.calls[i]
      /\ Len(rh.sleeps) = i - 1

C17_Witness ==
  /\ rh.state = "raised"
  /\ rh.error = "other"
  /\ Len(rh.calls) >= 2
  /\ rh.calls[1] \in Retryable

\* C18: send_personal_message returns True exactly when the user had an
\* entry and the write succeeded; after a write that failed the user is in
\* neither active_connections nor connection_info; a send to a user without
\* an entry returns False and leaves both unchanged.
SendReturns == ws_op' # ws_op /\ ws_op'.kind = "send" /\ ws_op'.state = "returned"

C18_SendContract ==
  [][ SendReturns =>
        /\ (ws_op'.result = "true")
             <=> (ws_op'.was_registered /\ ws_op'.write_ok = "ok")
        /\ ws_op'.result \in {"true", "false"}
        /\ ws_op'.write_ok = "failed" =>
             /\ active_connections'[ws_op'.user] = NoChan
             /\ ws_op'.user \notin connection_info'
        /\ ~ws_op'.was_registered =>
             /\ ws_op'.result = "false"
             /\ active_connections' = active_connections
             /\ connection_info' = connection_info
    ]_vars

C18_Witness ==
  /\ ws_op.kind = "send" /\ ws_op.state = "returned"
  /\ ws_op.write_ok = "failed" /\ ws_op.result = "false"
  /\ ws_op.chan = FirstChan[ws_op.user]
  /\ active_connections[ws_op.user] = NoChan

\* C19: broadcast attempts a send to every target that was connected, also
\* after a send that failed; when it returns every user whose send failed
\* is unregistered, and no step of broadcast changes the entry of a user
\* whose sends all succeeded or who is connected and no target.
BroadcastStep == ws_op' # ws_op /\ ws_op'.kind = "broadcast"

C19_BroadcastFanOut ==
  [][ BroadcastStep =>
        /\ ws_op'.state = "returned" =>
             /\ \A u \in SeqToSet(ws_op'.targets) :
                  ws_op'.snapshot[u] # NoChan => u \in ws_op'.attempted
             /\ \A u \in ws_op'.failed :
                  active_connections'[u] = NoChan /\ u \notin connection_info'
        /\ \A u \in Users \ ws_op'.failed :
             /\ active_connections'[u] = active_connections[u]
             /\ (u \in connection_info') <=> (u \in connection_info)
    ]_vars

C19_Witness ==
  /\ ws_op.kind = "broadcast" /\ ws_op.state = "returned"
  /\ ws_op.targets = <<"u1", "u2">>
  /\ ws_op.failed = {"u1"} /\ ws_op.attempted = {"u1", "u2"}
  /\ active_connections["u1"] = NoChan
  /\ active_connections["u2"] = FirstChan["u2"]

\* Two articles match when is_duplicate reports one of them against the
\* other: the same normalized URL, the same content hash, or similar titles.
Matches(a, b) ==
  \/ normalize_url(a.url) = normalize_url(b.url)
  \/ generate_content_hash(a) = generate_content_hash(b)
  \/ similar_title(a.title, b.title)

RECURSIVE SubSeq_at(_, _, _)
SubSeq_at(s, S, i) ==
  IF i > Len(s) THEN <<>>
  ELSE (IF i \in S THEN <<s[i]>> ELSE <<>>) \o SubSeq_at(s, S, i + 1)

\* The indices adm of the batch are the admitted ones: an article is among
\* them exactly when it matches nothing of the seen-set as it was before
\* the call and no admitted article before it.
AdmittedAre(adm) ==
  \A i \in 1..Len(dedup.articles) :
    i \in adm <=>
      /\ ~is_duplicate(dedup.articles[i], dedup.before, <<>>)
      /\ \A j \in adm : j < i => ~Matches(dedup.articles[i], dedup.articles[j])

\* The result is the batch at the admitted indices, in input order, and the
\* seen-set has grown by the admitted articles.
FirstSeenWins(adm) ==
  /\ dedup.unique_articles = SubSeq_at(dedup.articles, adm, 1)
  /\ AdmittedAre(adm)
  /\ dedup.seen_urls =
       dedup.before.seen_urls
       \cup {normalize_url(dedup.articles[i].url) : i \in adm}
  /\ dedup.seen_titles =
       dedup.before.seen_titles \cup {dedup.articles[i].title : i \in adm}

\* The sets of as many indices of the batch as the result has articles
IndexSets ==
  {adm \in SUBSET (1..Len(dedup.articles)) :
     Cardinality(adm) = Len(dedup.unique_articles)}

\* C20, as claimed: the result of filter_duplicates is the subsequence of
\* the admitted articles, admitted being first-seen-wins against the seen-set
\* and the articles admitted before; and of two articles of the batch that
\* match each other the later one is never in the result.
C20_AsClaimed ==
  dedup.called =>
    \E adm \in IndexSets :
      /\ FirstSeenWins(adm)
      /\ \A i, j \in 1..Len(dedup.articles) :
           (i < j /\ Matches(dedup.articles[i], dedup.articles[j])) => j \notin adm

\* C20, amended: the same, but of two articles of the batch that match each
\* other the later one is not in the result when the earlier one is (the
\* later one can be admitted when the earlier one was itself rejected).
C20_FirstSeenWins ==
  dedup.called =>
    \E adm \in IndexSets :
      /\ FirstSeenWins(adm)
      /\ \A i, j \in 1..Len(dedup.articles) :
           (i < j /\ Matches(dedup.articles[i], dedup.articles[j]))
             => ~(i \in adm /\ j \in adm)

C20_Witness ==
  /\ dedup.called
  /\ Len(dedup.articles) = 3
  /\ Len(dedup.unique_articles) = 2
  /\ Matches(dedup.articles[1], dedup.articles[2])
  /\ Matches(dedup.articles[2], dedup.articles[3])
  /\ dedup.unique_articles = <<dedup.articles[1], dedup.articles[3]>>

\* C21: filter_duplicates called on the list an earlier call on the same
\* deduplicator returned yields that list again.
C21_Idempotent ==
  dedup.refiltered => dedup.again = dedup.unique_articles

\* The parameters of a query that are no tracking parameters
Remaining(query) ==
  {query[i] : i \in {j \in 1..Len(query) : query[j][1] \notin TrackingParams}}

\* C22: two URLs that differ only in tracking parameters, in the order of
\* the other parameters, in letter case or in a trailing slash normalize to
\* the same string, and the article of the second is reported as a
\* duplicate of the first with reason duplicate_url.
C22_SurfaceFormsEqual ==
  (call.fn = "_normalize_url" /\ Remaining(call.url1.query) = Remaining(call.url2.query))
    => /\ call.normalized1 = call.normalized2
       /\ call.reason = "duplicate_url"

\* C23: for valid factors calculate_impact returns a final score and a
\* confidence in [0, 1].
C23_ScoresBounded ==
  call.fn = "calculate_impact" =>
    /\ 0 <= call.final_score /\ call.final_score <= ScoreDen
    /\ 0 <= call.confidence /\ call.confidence <= ConfidenceDen

C23_Witness ==
  /\ call.fn = "calculate_impact"
  /\ call.factors.company_mentioned_count = 20
  /\ call.final_score = ScoreDen
  /\ call.confidence = ConfidenceDen

\* The float that get_time_decay_factor is said to return for an age
DecaySaid(hours, decay) ==
  /\ hours = 0 => decay = Float_1_0
  /\ hours = 24 => decay = Float_0_7
  /\ hours = 72 => decay = Float_0_5
  /\ hours >= 168 => decay = Float_0_3

\* C24: the time decay factor does not increase with the age, decay(h1) >=
\* decay(h2) for 0 <= h1 < h2, also across 24 h, 72 h and 168 h; it is 1.0
\* at 0 h, 0.7 at 24 h, 0.5 at 72 h, 0.3 at 168 h and 0.3 after 168 h.
C24_DecayNonIncreasing ==
  call.fn = "get_time_decay_factor" =>
    /\ ~float_less(call.decay1, call.decay2)
    /\ DecaySaid(call.hours1, call.decay1)
    /\ DecaySaid(call.hours2, call.decay2)

\* C25: for factors that differ in the subject and the relationship only,
\* the score of the primary subject is at least that of a competitor, which
\* is at least that of an investor; no relationship scores like the weight
\* 0.5 (that of an investor), and no relationship scores above the primary
\* subject.
C25_RelationshipDampening ==
  call.fn = "calculate_impact" =>
    /\ call.by_relation["primary"] >= call.by_relation["competitor"]
    /\ call.by_relation["competitor"] >= call.by_relation["investor"]
    /\ call.by_relation[NoRelationship] = call.by_relation["investor"]
    /\ \A rel \in RelationCases :
         call.by_relation[rel] <= call.by_relation["primary"]

C25_Witness ==
  /\ call.fn = "calculate_impact"
  /\ call.by_relation["primary"] > call.by_relation["competitor"]
  /\ call.by_relation["competitor"] > call.by_relation["investor"]
  /\ call.final_score = call.by_relation[NoRelationship]

\* The entries of the retry queue that are due
DueEntries(rq) == {i \in 1..Len(rq) : rq[i].retry_in <= 0}

\* C26: when the four buckets are empty and the retry queue holds a due
\* entry, dequeue returns a notification of the retry queue, the due entry
\* that was scheduled first; an entry that was scheduled earlier and is due
\* later does not stand in its way.
C26_DueRetryReturned ==
  (/\ \A p \in Priorities : queues[p] = <<>>
   /\ DueEntries(retry_queue) # {})
  => LET d == dequeue_choice(queues, retry_queue) IN
     /\ d.src = "retry"
     /\ d.id = retry_queue[MinOf(DueEntries(retry_queue))].notification

\* C27: every call of wait_if_needed that returns has appended exactly one
\* timestamp to the history of its domain, when it returned without waiting
\* and when it returned after waiting.
C27_EveryReturnRecorded ==
  [][Len(rl_returns') = Len(rl_returns) + 1
       => Len(request_history') = Len(request_history) + 1]_vars

\* C28: when connect() has replaced the channel of a user by a newer one,
\* the end of the receive loop of the older channel does not unregister the
\* newer channel.
C28_OldHandlerKeepsNew ==
  [][\A c \in Chans :
       (/\ conn_pc[c] = "receiving" /\ conn_pc'[c] = "ended"
        /\ active_connections[User] # NoChan
        /\ old_ws[active_connections[User]] = c)
       => active_connections'[User] = active_connections[User]]_vars

\* C29: a write that failed unregisters only the channel it was attempted
\* on: when the user has reconnected during a send or a broadcast, the
\* handling of the failure and the clean-up of broadcast leave the newer
\* channel registered.
C29_FailedWriteSparesNew ==
  [][ws_op' # ws_op =>
       \A u \in Users :
         active_connections'[u] # active_connections[u] =>
           /\ ws_op.state = "writing" /\ ws_op'.write_ok = "failed"
           /\ u = ws_op.user
           /\ active_connections[u] = ws_op.chan]_vars

\* C30: stop() lets a send that is under way finish: once the worker has
\* ended, no notification is left in processing without an outcome (each
\* one dispatched was marked sent, rescheduled or dropped), and while the
\* service is stopped nothing is dequeued.
C30_StopFinishesSend ==
  /\ []((~running /\ pc = "stopped") => processing = {})
  /\ [][~running => \A id \in Ids : dequeued'[id] = dequeued[id]]_vars

\* The number of places of the queue that hold the notification: positions
\* in the buckets, entries of the retry queue, the processing set
Held(id) ==
  Cardinality({<<p, i>> \in Priorities \X Ids :
                 i <= Len(queues[p]) /\ queues[p][i] = id})
  + Cardinality({i \in 1..Len(retry_queue) : retry_queue[i].notification = id})
  + (IF id \in processing THEN 1 ELSE 0)

\* C31: with producers that enqueue between the steps of the worker, every
\* notification that enqueue accepted is in exactly one of a bucket, the
\* processing set, the retry queue, the state sent and the state dropped:
\* none is held twice, a dropped one is held nowhere, and the counter
\* enqueued is the number of the notifications in these five places.
C31_Conservation ==
  /\ stats.enqueued = Len(notifs)
  /\ \A id \in Ids : Held(id) <= 1 /\ (id \in dropped => Held(id) = 0)
  /\ stats.enqueued =
       total_size(queues) + Cardinality(processing) + Len(retry_queue)
       + stats.sent + Cardinality(dropped)

\* C31: of two accepted notifications one was sent and the other dropped.
C31_Witness ==
  /\ stats.enqueued = 2 /\ stats.sent = 1 /\ Cardinality(dropped) = 1
  /\ \A id \in Ids : Held(id) = 0

\* C32: the notifications the queue holds in memory, in the four buckets,
\* the retry queue and the processing set, are never more than max_size.
C32_MemoryBounded ==
  total_size(queues) + Len(retry_queue) + Cardinality(processing) <= max_size

\* C33: in the result of merge_similar_articles every two articles merged
\* into one group have similar titles: of three articles of which the
\* first and the third are each similar to the second but not to each
\* other, the first and the third are in no common group, in any order of
\* the three.
C33_GroupsPairwiseSimilar ==
  call.fn = "merge_similar_articles" =>
    \A k \in 1..Len(call.merged_groups) :
      \A a, b \in call.merged_groups[k] :
        similar_title(call.articles[a].title, call.articles[b].title)

\* C34: with quiet hours from start to end, both in 0..23 and also with
\* start greater than end (a window across midnight), a notification of a
\* type other than HIGH_IMPACT_NEWS, enabled for the user, is suppressed at
\* an hour inside the window and is not suppressed at an hour outside it.
C34_QuietWindow ==
  ( /\ ss_result # "none"
    /\ ss_settings.enabled /\ ss_settings.type_settings[ss_type]
    /\ ss_type # HIGH_IMPACT_NEWS
    /\ ss_settings.quiet_hours_start # NoHour
    /\ ss_settings.quiet_hours_end # NoHour )
  => ( ss_result = "false"
       <=> InQuietWindow(ss_settings.quiet_hours_start,
                         ss_settings.quiet_hours_end, ss_hour) )

\* The entry of the notification in the retry queue
RetryEntry(rq, id) == rq[CHOOSE i \in 1..Len(rq) : rq[i].notification = id]

\* C35: a notification that is rescheduled after k earlier reschedules
\* (k = 0, 1, 2) is due baseDelay * 2^k seconds after the failure, with 5 s
\* for CRITICAL and 30 s otherwise and at most 300 s; it is not dequeued
\* before it is due; its retry counter grows by one with every reschedule
\* and is never above 3 (CRITICAL) or 2 (other).
C35_RetryDelays ==
  /\ [](\A id \in Ids :
          notifs[id].retry_count
            <= (IF notifs[id].priority = "critical" THEN 3 ELSE 2))
  /\ [][\A id \in Ids :
          LET k == notifs[id].retry_count
              base == IF notifs[id].priority = "critical" THEN 5 ELSE 30
              delay == IF base * TwoTo(k) < 300 THEN base * TwoTo(k) ELSE 300
          IN
          /\ (failures'[id] = failures[id] + 1 /\ id \notin dropped') =>
                /\ k \in {0, 1, 2}
                /\ InRetry(retry_queue', id)
                /\ RetryEntry(retry_queue', id).retry_in = delay
                /\ RetryEntry(retry_queue', id).retry_count = k + 1
                /\ notifs'[id].retry_count = k + 1
          /\ notifs'[id].retry_count # k =>
                (failures'[id] = failures[id] + 1 /\ id \notin dropped')
          /\ (dequeued'[id] = dequeued[id] + 1 /\ InRetry(retry_queue, id)) =>
                RetryEntry(retry_queue, id).retry_in <= 0
      ]_vars

\* C35: a CRITICAL notification was rescheduled for the third time, due in
\* 20 s, and another notification for the second time, due in 60 s.
C35_Witness ==
  \E i, j \in 1..Len(retry_queue) :
    /\ notifs[retry_queue[i].notification].priority = "critical"
    /\ retry_queue[i].retry_count = 3 /\ retry_queue[i].retry_in = 20
    /\ notifs[retry_queue[j].notification].priority # "critical"
    /\ retry_queue[j].retry_count = 2 /\ retry_queue[j].retry_in = 60

\* C36: a notification is written to the live channel of its recipient at
\* most once: after one successful write no later step writes the same
\* notification to the live channel again.
C36_LiveWriteAtMostOnce ==
  \A id \in Ids : delivered[id][WEBSOCKET] <= 1

\* C37: a user whose stored settings have enabled = false receives no
\* notification on any channel, also when the load of the settings from
\* the store fails at the dispatch: the dispatcher never takes the default
\* settings for the user's.
C37_DisabledStaysSilent ==
  ~settings.enabled =>
    \A id \in Ids : \A c \in NotifChannels : delivered[id][c] = 0

\* C38: in execute_with_retry the wait that follows the failed attempt k
\* (k = 0, 1, ...) is 2^k seconds with the default factor; no wait follows
\* the final failed attempt or a success; and for every max_retries >= 0 the
\* call either returns a result of func or raises an error that func raised.
C38_BackoffAndOutcome ==
  /\ \A i \in 1..Len(rh.sleeps) :
        /\ rh.sleeps[i] = TwoTo(i - 1)
        /\ i <= Len(rh.calls) /\ rh.calls[i] # "ok"
  /\ rh.state \in {"returned", "raised"} /\ Len(rh.calls) >= 1
        => Len(rh.sleeps) = Len(rh.calls) - 1
  /\ rh.state = "returned"
        => Len(rh.calls) >= 1 /\ rh.calls[Len(rh.calls)] = "ok"
  /\ rh.state = "raised"
        => /\ Len(rh.calls) >= 1
           /\ rh.error = rh.calls[Len(rh.calls)]
           /\ rh.error # "ok"

====
